---- MODULE Spec2Model ----
(***************************************************************************)
(* light-query: the per-key fetch state machine (Query), the registry      *)
(* (QueryCache) and the client orchestration (QueryClient).                *)
(*                                                                         *)
(* One action is one synchronous run of engine code: a public call up to   *)
(* its first await, or the continuation that runs when an awaited promise  *)
(* has settled.                                                            *)
(***************************************************************************)
EXTENDS Integers, Sequences, FiniteSets, TLC

\* ------------------------------------------------------------------ bounds
MaxTime == 2        \* Date.now() ranges over 1..MaxTime
MaxGen == 2         \* Query objects ever constructed per key
MaxCalls == 2       \* fetch() promises per Query object not yet consumed
MaxInv == 2         \* invalidateQueries calls in progress at once
MaxTimers == 2      \* eviction timeouts of one Query pending at once
MaxMutations == 2   \* mutate calls in progress at once
MaxRetry == 2       \* largest retry option
MaxKeyLen == 2      \* segments of a query key handed to matchKey

\* A staleTime of Infinity compares greater than every clock difference.
Infinity == MaxTime + 1

Keys == {<<"todos">>, <<"todos", "1">>}
Gens == 1..MaxGen
Obj == Keys \X Gens
Slots == 1..MaxCalls
InvIds == 1..MaxInv
TimerIds == 1..MaxTimers
MutIds == 1..MaxMutations

\* Subscriber callbacks handed to subscribe / unsubscribe.
Callbacks == {"cb1", "cb2"}

KeyOf(o) == o[1]

\* Values an operation can resolve to ("null" stands for null or undefined),
\* and errors it can reject with.
DataValues == {"d1", "d2"}
Resolutions == DataValues \cup {"null"}
Errors == {"e1"}
RetryErrors == {"e1", "e2"}
\* Updater functions a caller hands to setQueryData, by name.
Updaters == {"toggle"}
DataArgs == DataValues \cup Updaters

StaleChoices == {0, 1, Infinity}

\* Per-call option sets handed to fetchQuery (QueryOptions without key and fn).
StaleOptions == [staleTime : StaleChoices, retry : {0}, suspense : {FALSE}]
SuspenseOptions == [staleTime : {0, Infinity}, retry : {0}, suspense : BOOLEAN]
FiniteStale == [staleTime : {1}, retry : {0}, suspense : {FALSE}]
ZeroStale == [staleTime : {0}, retry : {0}, suspense : {FALSE}]
ZeroStaleSuspense == [staleTime : {0}, retry : {0}, suspense : BOOLEAN]
RetryOptions == [staleTime : {0}, retry : 0..MaxRetry, suspense : {FALSE}]
EvictOptions == [staleTime : {0}, cacheTime : {1}, refetchInterval : {0, 1}]

\* Partial keys handed to the bulk operations; given = FALSE is `undefined`.
KeyParts ==
  {[given |-> FALSE, key |-> <<>>]} \cup {[given |-> TRUE, key |-> k] : k \in Keys}

VARIABLES
  now,                  \* Date.now()
  cache,                \* QueryCache.cache: key -> generation of the Query stored (0: none)
  created,              \* Query objects constructed so far per key
  fn,                   \* Query.fn: the operation the Query invokes
  clientCache,          \* QueryClient.cache of each client: the QueryCache it holds
  otherCache,           \* the map of a QueryCache made with `new QueryCache()`
  state,                \* Query.state
  options,              \* Query.options
  abortController,      \* Query.abortController: the call slot owning it (0: undefined)
  pendingNotification,  \* Query.pendingNotification
  notificationTimer,    \* the timer-0 callbacks set by Query.notify() that have not run
  calls,                \* the fetch() calls of each Query whose promise is not yet consumed
  invalidating,         \* the invalidateQueries calls that have not returned
  subscribers,          \* Query.subscribers, in the insertion order a Set iterates in
  cacheTimer,           \* Query.cacheTimer: the timeout it holds (0: undefined)
  timeouts,             \* the eviction timeouts of each Query not yet fired or cleared
  isRefetching,         \* Query.isRefetching
  intervalId,           \* Query.intervalId: a polling interval is running
  activeMutations,      \* QueryClient.activeMutations
  mutationSubscribers,  \* QueryClient.mutationSubscribers, in the Set's insertion order
  mutations,            \* the mutate calls made: their position and what they did so far
  matchCall,            \* the matchKey call just made: its arguments and result
  last                  \* the step just taken (history, read by the properties only)

subscriptionVars == <<subscribers, cacheTimer, timeouts, intervalId>>
mutationVars == <<activeMutations, mutations, mutationSubscribers>>
matchVars == <<matchCall>>
refetchVars == <<isRefetching>>
notifyVars == <<pendingNotification, notificationTimer>>
registryVars == <<clientCache, otherCache>>

vars == <<now, cache, created, fn, registryVars, state, options, abortController,
          notifyVars, calls, invalidating, subscriptionVars, mutationVars, matchVars, refetchVars, last>>

IdleState == [status |-> "idle", data |-> "undefined", error |-> "undefined", updatedAt |-> 0]

\* The default cacheTime of 5 * 60_000 ms is longer than the period the
\* clock of the model covers.
DefaultCacheTime == MaxTime + 1

DefaultRetryDelay == 1000

\* config.defaultOptions.queries of a client constructed without a config.
DefaultOptions ==
  [staleTime |-> 0, cacheTime |-> DefaultCacheTime, retry |-> 0,
   retryDelay |-> DefaultRetryDelay, refetchInterval |-> 0, suspense |-> FALSE]

\* The values the Query constructor falls back to with ??: the same ones.
ConstructorDefaults == DefaultOptions

\* What a caller of mutate supplies as onSuccess and as onError: nothing, a
\* callback that returns, or one that throws.
CallbackKinds == {"absent", "returns", "throws"}
MutationOptions == [onSuccess : CallbackKinds, onError : CallbackKinds]
OnSuccessError == "onSuccess threw"
OnErrorError == "onError threw"

\* A mutate call not made yet.  ok and op are how its mutationFn settled and
\* with what, onSuccess and onError the arguments of the calls made to each
\* callback, threw and res whether the call failed and what it returned or
\* failed with.
NoMutation ==
  [phase |-> "idle", options |-> [onSuccess |-> "absent", onError |-> "absent"],
   ok |-> FALSE, op |-> "none", onSuccess |-> <<>>, onError |-> <<>>,
   threw |-> FALSE, res |-> "none"]

\* JavaScript values a key is made of: t is the kind of value, s the text of
\* a string or number, kids the own enumerable properties in order (of an
\* array: its elements under their indices).
Scalar(t, x) == [t |-> t, s |-> x, kids |-> <<>>]
Null == Scalar("null", "")
Undefined == Scalar("undefined", "")
IndexName(i) == <<"0", "1", "2", "3">>[i]
Arr(elems) ==
  [t |-> "array", s |-> "",
   kids |-> [i \in 1..Len(elems) |-> [k |-> IndexName(i), v |-> elems[i]]]]
Object(props) == [t |-> "object", s |-> "", kids |-> props]

\* Segments of keys, and the keys made of them: arrays of segments and a
\* string.
Segments ==
  {Scalar("string", "1"), Scalar("number", "1"), Null, Undefined,
   Arr(<<>>), Object(<<>>),
   Arr(<<Scalar("string", "1")>>),
   Object(<<[k |-> "0", v |-> Scalar("string", "1")]>>)}
QueryKeys ==
  {Scalar("string", "todos")} \cup
  {Arr(segs) : segs \in UNION {[1..n -> Segments] : n \in 1..MaxKeyLen}}

NoMatchCall == [called |-> FALSE, queryKey |-> Null, keyPart |-> Null, res |-> FALSE]

\* A call slot nobody uses.  Of a slot's fields, three are history only:
\* base is the staleTime the entry had before the invalidateQueries calls in
\* progress zeroed it, invoked counts the invocations of the operation the
\* call has made and delays the retry delays it has begun.
FreeCall ==
  [phase |-> "free", aborted |-> "no", i |-> 0, retries |-> 0, caller |-> "none",
   originalStale |-> 0, base |-> 0, inv |-> 0, thrown |-> "none",
   invoked |-> 0, delays |-> 0]

\* The step just taken: ev names it, objs are the entries it was called on,
\* started those whose operation it invoked, res what it returned, threw or was
\* handed, sig how the signal of the call it completed had been aborted,
\* called the subscriber calls it made, args the options it was called with.
NoEvent ==
  [ev |-> "init", objs |-> {}, started |-> {}, res |-> "none", sig |-> "no", called |-> <<>>,
   args |-> <<>>]

Event(e, os, st, r) ==
  [ev |-> e, objs |-> os, started |-> st, res |-> r, sig |-> "no", called |-> <<>>,
   args |-> <<>>]

\* Operations: a queryFn handed to fetchQuery, by name, or the placeholder
\* setQueryData builds around its data argument.  NoFn is the field of a
\* Query not constructed yet.
NoFn == [given |-> FALSE, name |-> "none"]
QueryFns == {[given |-> TRUE, name |-> n] : n \in {"queryFn", "otherFn"}}
QueryFn == [given |-> TRUE, name |-> "queryFn"]

\* QueryCache objects: the one QueryCache.getInstance() returns (the
\* variable cache is its map) and one a caller made with new QueryCache().
\* Clients: the exported queryClient, which exists from the start, and
\* one made with new QueryClient(config); "none" is the field of a client
\* not constructed yet.
getInstance == "QueryCache._instance"
OtherCache == "new QueryCache()"
Clients == {"queryClient", "custom"}

Init ==
  /\ now = 1
  /\ cache = [k \in Keys |-> 0]
  /\ created = [k \in Keys |-> 0]
  /\ fn = [o \in Obj |-> NoFn]
  /\ clientCache = [c \in Clients |-> IF c = "queryClient" THEN getInstance ELSE "none"]
  /\ otherCache = [k \in Keys |-> 0]
  /\ state = [o \in Obj |-> IdleState]
  /\ options = [o \in Obj |-> DefaultOptions]
  /\ abortController = [o \in Obj |-> 0]
  /\ pendingNotification = [o \in Obj |-> FALSE]
  /\ notificationTimer = [o \in Obj |-> 0]
  /\ calls = [o \in Obj |-> [s \in Slots |-> FreeCall]]
  /\ invalidating = {}
  /\ subscribers = [o \in Obj |-> <<>>]
  /\ cacheTimer = [o \in Obj |-> 0]
  /\ timeouts = [o \in Obj |-> {}]
  /\ intervalId = [o \in Obj |-> FALSE]
  /\ isRefetching = [o \in Obj |-> FALSE]
  /\ activeMutations = {}
  /\ mutations = <<>>
  /\ mutationSubscribers = <<>>
  /\ matchCall = NoMatchCall
  /\ last = NoEvent

\* Set.prototype.has / add / delete on a Set kept in insertion order.
SetHas(set, x) == \E i \in DOMAIN set : set[i] = x
SetAdd(set, x) == IF SetHas(set, x) THEN set ELSE Append(set, x)
SetDelete(set, x) == SelectSeq(set, LAMBDA y : y # x)

\* notify() that raises the flag without setting the timer.
notifyNoTimer(o, pending) == notificationTimer[o]

\* Query.notify() as the calls of one step run it on o, the flag being
\* pending once they are done: the timer-0 callbacks set and not yet run.
\* A call that finds the flag up returns at once; the call that finds it
\* down raises it and sets one callback.
notify(o, pending) ==
  IF pending /\ ~pendingNotification[o]
  THEN notificationTimer[o] + 1
  ELSE notificationTimer[o]

Notified == notificationTimer' = [o \in Obj |-> notify(o, pendingNotification'[o])]

Exists(o) == o[2] <= created[KeyOf(o)]
Registered(o) == cache[KeyOf(o)] = o[2]
Subscribed(o) == {subscribers[o][i] : i \in DOMAIN subscribers[o]}

HasFree(o) == \E s \in Slots : calls[o][s].phase = "free"
FreeSlot(o) == CHOOSE s \in Slots :
  /\ calls[o][s].phase = "free"
  /\ \A t \in Slots : calls[o][t].phase = "free" => s <= t

\* ------------------------------------------------------------------ Query

\* shouldSkipFetch without the Loading test: no request deduplication.
shouldSkipFetchNoDedup(st, opt) == now - st.updatedAt < opt.staleTime

\* shouldSkipFetch without the staleTime test: fresh data is refetched.
shouldSkipFetchNoFresh(st, opt) == st.status = "loading"

\* shouldSkipFetch that never takes an Error entry for fresh.
shouldSkipFetchErrorStale(st, opt) ==
  \/ st.status = "loading"
  \/ st.status # "error" /\ now - st.updatedAt < opt.staleTime

\* Query.shouldSkipFetch, on the state and options the entry has at the call.
shouldSkipFetch(st, opt) ==
  \/ st.status = "loading"
  \/ now - st.updatedAt < opt.staleTime

\* AbortController.abort() on the controller the entry holds, if any.  The
\* signal's aborted flag is "no" (false) or records which call aborted it.
AbortCurrent(o, cs, why) ==
  [s \in Slots |->
     IF s = abortController[o] /\ cs[s].aborted = "no"
     THEN [cs[s] EXCEPT !.aborted = why] ELSE cs[s]]

Aborted(c) == c.aborted # "no"
InFlight(c) == c.phase \in {"invoked", "delay"}

\* The synchronous part of Query.fetch() called on entry o whose state and
\* options are st and opt: shouldSkipFetch, prepareForFetch and the first
\* invocation of the operation by executeQuery.  The call's promise lives in
\* slot s; a skipped call's promise is resolved at once.
fetch(o, st, opt, s, caller, orig, c) ==
  IF shouldSkipFetch(st, opt)
  THEN [st |-> st, ac |-> abortController[o], pn |-> pendingNotification[o],
        calls |-> [calls[o] EXCEPT ![s] =
                     [FreeCall EXCEPT !.phase = "resolved", !.caller = caller,
                                      !.originalStale = orig, !.inv = c]],
        started |-> FALSE]
  ELSE [st |-> [st EXCEPT !.status = "loading"], ac |-> s, pn |-> TRUE,
        calls |-> [AbortCurrent(o, calls[o], "superseded") EXCEPT ![s] =
                     [FreeCall EXCEPT !.phase = "invoked", !.caller = caller,
                                      !.retries = opt.retry, !.invoked = 1,
                                      !.originalStale = orig, !.inv = c]],
        started |-> TRUE]

\* A bare query.fetch() whose promise nobody awaits (the hooks' `void query.fetch()`).
FetchCall(o) ==
  /\ Exists(o) /\ HasFree(o)
  /\ LET s == FreeSlot(o)
         f == fetch(o, state[o], options[o], s, "bare", 0, 0)
     IN /\ state' = [state EXCEPT ![o] = f.st]
        /\ abortController' = [abortController EXCEPT ![o] = f.ac]
        /\ pendingNotification' = [pendingNotification EXCEPT ![o] = f.pn]
        /\ Notified
        /\ calls' = [calls EXCEPT ![o] =
                       IF f.started THEN f.calls ELSE calls[o]]
        /\ last' = Event("fetch", {o}, IF f.started THEN {o} ELSE {}, "none")
  /\ UNCHANGED <<subscriptionVars, mutationVars, matchVars, refetchVars, now, cache, created, fn, registryVars, options, invalidating>>

\* settle with handleSuccess / handleError writing whatever the signal says.
settleIgnoringAbort(o, s, ok, v) ==
  [st |-> IF ok
          THEN [status |-> "success", data |-> v, error |-> "undefined", updatedAt |-> now]
          ELSE [status |-> "error", data |-> "undefined", error |-> v, updatedAt |-> now],
   pn |-> TRUE,
   ac |-> IF abortController[o] # 0 /\ ~Aborted(calls[o][s]) THEN 0 ELSE abortController[o],
   thrown |-> "none"]

\* settle with handleError keeping the data the entry had.
settleKeepingData(o, s, ok, v) ==
  LET aborted == Aborted(calls[o][s])
  IN [st |-> IF aborted THEN state[o]
             ELSE IF ok
                  THEN [status |-> "success", data |-> v, error |-> "undefined",
                        updatedAt |-> now]
                  ELSE [status |-> "error", data |-> state[o].data, error |-> v,
                        updatedAt |-> now],
      pn |-> IF aborted THEN pendingNotification[o] ELSE TRUE,
      ac |-> IF abortController[o] # 0 /\ ~aborted THEN 0 ELSE abortController[o],
      thrown |-> "none"]

\* settle that also discards the outcome when the entry is no longer
\* Loading, as if a manual write had cancelled the call.
settleUnlessWritten(o, s, ok, v) ==
  LET discard == Aborted(calls[o][s]) \/ state[o].status # "loading"
  IN [st |-> IF discard THEN state[o]
             ELSE IF ok
                  THEN [status |-> "success", data |-> v, error |-> "undefined",
                        updatedAt |-> now]
                  ELSE [status |-> "error", data |-> "undefined", error |-> v,
                        updatedAt |-> now],
      pn |-> IF discard THEN pendingNotification[o] ELSE TRUE,
      ac |-> IF abortController[o] # 0 /\ ~Aborted(calls[o][s]) THEN 0
             ELSE abortController[o],
      thrown |-> "none"]

\* Query.handleSuccess / handleError, then cleanup and handleSuspense, for the
\* fetch() call in slot s of entry o whose executeQuery has just returned v
\* (ok) or thrown v (~ok).  st: the state written, ac: the controller field,
\* pn: the pending flag, thrown: what the fetch() call rejects with.
settle(o, s, ok, v) ==
  LET aborted == Aborted(calls[o][s])
      st == IF aborted THEN state[o]
            ELSE IF ok
                 THEN [status |-> "success", data |-> v, error |-> "undefined",
                       updatedAt |-> now]
                 ELSE [status |-> "error", data |-> "undefined", error |-> v,
                       updatedAt |-> now]
  IN [st |-> st,
      pn |-> IF aborted THEN pendingNotification[o] ELSE TRUE,
      ac |-> IF abortController[o] # 0 /\ ~aborted THEN 0 ELSE abortController[o],
      thrown |-> IF options[o].suspense /\ ~aborted
                 THEN IF st.status = "loading" THEN "still loading"
                      ELSE IF st.status = "error" THEN st.error ELSE "none"
                 ELSE "none"]

\* The promise of the fetch() call in slot s settles; a bare call's promise has
\* no consumer and its slot is given back.  The counts of a call that went
\* through retry() stay on record until the promise is consumed.
Settled(c, thrown) ==
  IF c.caller = "bare" THEN FreeCall
  ELSE [FreeCall EXCEPT !.phase = IF thrown = "none" THEN "resolved" ELSE "rejected",
                        !.thrown = thrown, !.caller = c.caller,
                        !.originalStale = c.originalStale, !.base = c.base,
                        !.inv = c.inv, !.retries = c.retries,
                        !.invoked = IF c.retries > 0 THEN c.invoked ELSE 0,
                        !.delays = c.delays]

Complete(o, s, ok, v, ev) ==
  LET r == settle(o, s, ok, v)
  IN /\ state' = [state EXCEPT ![o] = r.st]
     /\ pendingNotification' = [pendingNotification EXCEPT ![o] = r.pn]
     /\ Notified
     /\ abortController' = [abortController EXCEPT ![o] = r.ac]
     /\ calls' = [calls EXCEPT ![o][s] = Settled(calls[o][s], r.thrown)]
     /\ last' = [Event(ev, {o}, {}, v) EXCEPT !.sig = calls[o][s].aborted]
     /\ UNCHANGED <<subscriptionVars, mutationVars, matchVars, refetchVars, now, cache, created, fn, registryVars, options, invalidating>>

\* An updater handed to setQueryData: a function of the previous data.
Call(u, prev) == IF prev = "d1" THEN "d2" ELSE "d1"

\* setQueryData's updater called with undefined whatever the entry holds.
newDataFromUndefined(d, prev) == IF d \in Updaters THEN Call(d, "undefined") ELSE d

\* setQueryData's newData: data instanceof Function ? data(query.state.data) : data
newData(d, prev) == IF d \in Updaters THEN Call(d, prev) ELSE d

\* The queryFn setQueryData gives the Query it constructs: a function that
\* resolves to `data instanceof Function ? data(undefined) : data`.
Placeholder(d) == [given |-> FALSE, name |-> d]
PlaceholderYields(f) == newData(f.name, "undefined")

\* What this.fn can do once invoked: a queryFn of a caller resolves to any
\* value or rejects; the placeholder of setQueryData resolves to the value
\* of its data argument and never rejects.
CanResolve(f, d) == f.given \/ d = PlaceholderYields(f)
CanReject(f) == f.given

\* The operation invoked for slot s resolves to d: retry and executeQuery
\* return d and fetch() continues after its await.
OpResolve(o, s, d) ==
  /\ calls[o][s].phase = "invoked"
  /\ CanResolve(fn[o], d)
  /\ Complete(o, s, TRUE, d, "resolve")

\* retry() that makes one attempt more than its retries argument.
RetryAgainOnceMore(i, retries) == retries > 0 /\ i < retries

\* retry(): another attempt follows the failed attempt i iff i < retries - 1.
RetryAgain(i, retries) == retries > 0 /\ i < retries - 1

\* retry() that goes to the next attempt without waiting.
afterFailureNoDelay(c) == [c EXCEPT !.i = @ + 1, !.invoked = @ + 1]

\* retry() after a failed attempt that is not the last: it waits for the
\* delay.
afterFailure(c) == [c EXCEPT !.phase = "delay", !.delays = @ + 1]

\* The operation invoked for slot s rejects with e: retry waits for the delay
\* when attempts are left, otherwise the error reaches fetch()'s catch.
OpReject(o, s, e) ==
  /\ calls[o][s].phase = "invoked"
  /\ CanReject(fn[o])
  /\ IF RetryAgain(calls[o][s].i, calls[o][s].retries)
     THEN /\ calls' = [calls EXCEPT ![o][s] = afterFailure(@)]
          /\ last' = Event("retryWait", {o}, {}, "none")
          /\ UNCHANGED <<subscriptionVars, mutationVars, matchVars, refetchVars, now, cache, created, fn, registryVars, state, options, abortController,
                         notifyVars, invalidating>>
     ELSE Complete(o, s, FALSE, e, "reject")

\* retry(): the delay is over, the next attempt invokes the operation again.
RetryAttempt(o, s) ==
  /\ calls[o][s].phase = "delay"
  /\ calls' = [calls EXCEPT ![o][s].phase = "invoked", ![o][s].i = @ + 1,
                            ![o][s].invoked = @ + 1]
  /\ last' = Event("retry", {o}, {o}, "none")
  /\ UNCHANGED <<subscriptionVars, mutationVars, matchVars, refetchVars, now, cache, created, fn, registryVars, state, options, abortController,
                 notifyVars, invalidating>>

\* cancel() that drops the controller without aborting its signal.
CancelWithoutAbort(o) ==
  /\ Exists(o)
  /\ abortController' = [abortController EXCEPT ![o] = 0]
  /\ last' = Event("cancel", {o}, {}, "none")
  /\ UNCHANGED <<subscriptionVars, mutationVars, matchVars, refetchVars, now, cache, created, fn, registryVars, state, options, notifyVars, calls,
                 invalidating>>

\* Query.cancel()
Cancel(o) ==
  /\ Exists(o)
  /\ calls' = [calls EXCEPT ![o] =
                 IF abortController[o] # 0
                 THEN AbortCurrent(o, calls[o], "cancelled") ELSE calls[o]]
  /\ abortController' = [abortController EXCEPT ![o] = 0]
  /\ last' = Event("cancel", {o}, {}, "none")
  /\ UNCHANGED <<subscriptionVars, mutationVars, matchVars, refetchVars, now, cache, created, fn, registryVars, state, options, notifyVars, invalidating>>

\* The forEach of the callback with the try / catch taken out: the first
\* subscriber that throws ends the batch.
forEachSubscriberUncaught(subs, T, st) ==
  LET stop == IF \E i \in DOMAIN subs : subs[i] \in T
              THEN CHOOSE i \in DOMAIN subs :
                     subs[i] \in T /\ \A j \in 1..(i - 1) : subs[j] \notin T
              ELSE Len(subs)
  IN [i \in 1..stop |-> [cb |-> subs[i], saw |-> st, threw |-> subs[i] \in T, caught |-> FALSE]]

\* The forEach in reverse insertion order.
forEachSubscriberReversed(subs, T, st) ==
  [i \in DOMAIN subs |->
     [cb |-> subs[Len(subs) + 1 - i], saw |-> st,
      threw |-> subs[Len(subs) + 1 - i] \in T, caught |-> subs[Len(subs) + 1 - i] \in T]]

\* The forEach of the timer-0 callback: the subscribers are called in the
\* Set's order, each reading the state the Query has then; the ones in T
\* throw, and what a subscriber throws is caught and logged.
forEachSubscriber(subs, T, st) ==
  [i \in DOMAIN subs |->
     [cb |-> subs[i], saw |-> st, threw |-> subs[i] \in T, caught |-> subs[i] \in T]]

\* The timer-0 callback set by Query.notify(): the flag is lowered and the
\* batch is delivered; the subscribers in T throw.
NotifyFlush(o, T) ==
  /\ notificationTimer[o] > 0
  /\ pendingNotification' = [pendingNotification EXCEPT ![o] = FALSE]
  /\ notificationTimer' = [notificationTimer EXCEPT ![o] = @ - 1]
  /\ last' = [Event("notified", {o}, {}, "none") EXCEPT
                !.called = forEachSubscriber(subscribers[o], T, state[o])]
  /\ UNCHANGED <<subscriptionVars, mutationVars, matchVars, refetchVars, now, cache, created, fn, registryVars, state, options, abortController, calls, invalidating>>

\* Query.subscribe(cb): the callback joins the set, the eviction timeout
\* whose handle the Query holds is cleared, and cb is called at once.
Subscribe(o, cb) ==
  /\ Exists(o)
  /\ subscribers' = [subscribers EXCEPT ![o] = SetAdd(@, cb)]
  /\ timeouts' = [timeouts EXCEPT ![o] = {tm \in @ : tm.id # cacheTimer[o]}]
  /\ cacheTimer' = [cacheTimer EXCEPT ![o] = 0]
  /\ last' = Event("subscribe", {o}, {}, cb)
  /\ UNCHANGED <<intervalId, mutationVars, matchVars, refetchVars, now, cache, created, fn, registryVars, state, options,
                 abortController, notifyVars, calls, invalidating>>

\* setTimeout: the handle of the new timer.
FreeTimer(o) == CHOOSE id \in TimerIds : \A tm \in timeouts[o] : tm.id # id

\* Query.unsubscribe(cb): the callback leaves the set; when the set is
\* empty afterwards a timeout of options.cacheTime is set and its handle
\* stored in cacheTimer, whatever handle was there.
Unsubscribe(o, cb) ==
  LET rest == SetDelete(subscribers[o], cb)
  IN /\ Exists(o)
     /\ rest = <<>> => \E id \in TimerIds : \A tm \in timeouts[o] : tm.id # id
     /\ subscribers' = [subscribers EXCEPT ![o] = rest]
     /\ IF rest = <<>>
        THEN /\ timeouts' = [timeouts EXCEPT ![o] =
                   @ \cup {[id |-> FreeTimer(o), due |-> now + options[o].cacheTime]}]
             /\ cacheTimer' = [cacheTimer EXCEPT ![o] = FreeTimer(o)]
        ELSE UNCHANGED <<timeouts, cacheTimer>>
     /\ last' = Event("unsubscribe", {o}, {}, cb)
     /\ UNCHANGED <<intervalId, mutationVars, matchVars, refetchVars, now, cache, created, fn, registryVars, state, options,
                    abortController, notifyVars, calls, invalidating>>

\* QueryCache.remove(key), with no cleanup timer of the cache set
\* (scheduleCleanup has no caller).
remove(k) == [cache EXCEPT ![k] = 0]

\* The timeout callback without its cache.remove.
EvictionKeepsEntry(o, tm) == cache

\* What the timeout callback of unsubscribe leaves in the registry.
EvictionRemoves(o, tm) == remove(KeyOf(o))

\* The callback of the timeout set by unsubscribe, run once it is due: the
\* interval is cleared and the Query's key is removed from the cache.
EvictionTimeout(o, tm) ==
  /\ tm \in timeouts[o]
  /\ tm.due <= now
  /\ timeouts' = [timeouts EXCEPT ![o] = @ \ {tm}]
  /\ intervalId' = [intervalId EXCEPT ![o] = FALSE]
  /\ cache' = EvictionRemoves(o, tm)
  /\ last' = Event("evict", {o}, {}, "none")
  /\ UNCHANGED <<subscribers, cacheTimer, mutationVars, matchVars, refetchVars, now, created, fn, registryVars, state, options,
                 abortController, notifyVars, calls, invalidating>>

\* The interval callback that calls refetchWithoutStale without looking at
\* the subscribers.
TickRefetchesUnobserved(o) == ~isRefetching[o]

\* The test of the interval callback set by setupRefetchInterval: whether
\* this tick calls refetchWithoutStale.
TickRefetches(o) == Len(subscribers[o]) > 0 /\ ~isRefetching[o]

\* The staleTime the finally block of refetchWithoutStale puts back: the
\* one it saved when it was called.
restoredStaleTime(c) == c.originalStale

\* A tick of the polling interval.  With a subscriber and no refetch of
\* its own in progress it runs refetchWithoutStale up to its await: the
\* flag is raised, staleTime saved and set to 0, and fetch() called.
\* Otherwise the callback does nothing.
Tick(o) ==
  /\ intervalId[o]
  /\ IF TickRefetches(o)
     THEN /\ HasFree(o)
          /\ LET opt == [options[o] EXCEPT !.staleTime = 0]
                 f == fetch(o, state[o], opt, FreeSlot(o), "interval",
                            options[o].staleTime, 0)
             IN /\ isRefetching' = [isRefetching EXCEPT ![o] = TRUE]
                /\ options' = [options EXCEPT ![o] = opt]
                /\ state' = [state EXCEPT ![o] = f.st]
                /\ abortController' = [abortController EXCEPT ![o] = f.ac]
                /\ pendingNotification' = [pendingNotification EXCEPT ![o] = f.pn]
                /\ Notified
                /\ calls' = [calls EXCEPT ![o] = f.calls]
                /\ last' = Event("tick", {o}, IF f.started THEN {o} ELSE {}, "refetch")
     ELSE /\ last' = Event("tick", {o}, {}, "none")
          /\ UNCHANGED <<isRefetching, options, state, abortController, notifyVars, calls>>
  /\ UNCHANGED <<subscriptionVars, mutationVars, matchVars, now, cache, created, fn, registryVars, invalidating>>

\* refetchWithoutStale after its await: the fetch() promise in slot s has
\* settled, a rejection is caught and logged, and the finally block puts
\* staleTime back and lowers the flag.
RefetchFinally(o, s) ==
  /\ calls[o][s].caller = "interval"
  /\ calls[o][s].phase \in {"resolved", "rejected"}
  /\ options' = [options EXCEPT ![o].staleTime = restoredStaleTime(calls[o][s])]
  /\ isRefetching' = [isRefetching EXCEPT ![o] = FALSE]
  /\ calls' = [calls EXCEPT ![o][s] = FreeCall]
  /\ last' = Event("refetched", {o}, {}, calls[o][s].thrown)
  /\ UNCHANGED <<subscriptionVars, mutationVars, matchVars, now, cache, created, fn, registryVars, state,
                 abortController, notifyVars, invalidating>>

\* ------------------------------------------------------------------ QueryClient

\* The options of new Query(key, merged), the properties in U being
\* undefined in merged: each of those falls back to the constructor's own
\* default.
constructorOptions(merged, U) ==
  [f \in DOMAIN merged |-> IF f \in U THEN ConstructorDefaults[f] ELSE merged[f]]

\* updateOptions without its retryDelay branch.
updateOptionsNoRetryDelay(opt, merged, U) ==
  [f \in DOMAIN opt |-> IF f \in U \cup {"retryDelay"} THEN opt[f] ELSE merged[f]]

\* Query.updateOptions(merged) on an entry whose options are opt, the
\* properties in U being undefined in merged: those are left as they
\* are and every other one is overwritten.
updateOptions(opt, merged, U) ==
  [f \in DOMAIN opt |-> IF f \in U THEN opt[f] ELSE merged[f]]

\* Query.setupRefetchInterval as the constructor and updateOptions call it:
\* whether an interval runs once the options have become opt.
setupRefetchInterval(o, old, opt, isNew) ==
  IF isNew \/ opt.refetchInterval # old.refetchInterval
  THEN opt.refetchInterval > 0
  ELSE intervalId[o]

\* fetchQuery storing the queryFn of the call in the Query it found.
constructedFnReplaced(o, isNew, f) == f

\* Query.fn after fetchQuery or setQueryData has run with operation f: the
\* constructor of a new Query stores f, and nothing assigns the field of
\* a Query that exists.
constructedFn(o, isNew, f) == IF isNew THEN f ELSE fn[o]

\* fetchQuery's mergedOptions: the client's default options under the
\* options of the call, p holding the properties the call gives a value.
\* (A property the call passes as undefined is undefined in the merged
\* object too, the spread copying it over the default.)
mergedOptions(p) == p @@ DefaultOptions

\* QueryClient.fetchQuery up to its await: the entry is looked up or
\* constructed and stored, then query.fetch() is called.  p are the
\* options the call gives a value, U those it passes as undefined, queryFn
\* its operation: the constructor stores it, updateOptions does not look at it.
FetchQueryFn(k, p, U, queryFn) ==
  LET isNew == cache[k] = 0
      o == <<k, IF isNew THEN created[k] + 1 ELSE cache[k]>>
  IN /\ isNew => created[k] < MaxGen
     /\ HasFree(o)
     /\ U \cap DOMAIN p = {}
     /\ LET opt == IF isNew THEN constructorOptions(mergedOptions(p), U)
                   ELSE updateOptions(options[o], mergedOptions(p), U)
            f == fetch(o, state[o], opt, FreeSlot(o), "fetchQuery", 0, 0)
        IN /\ cache' = [cache EXCEPT ![k] = o[2]]
           /\ created' = [created EXCEPT ![k] = IF isNew THEN @ + 1 ELSE @]
           /\ fn' = [fn EXCEPT ![o] = constructedFn(o, isNew, queryFn)]
           /\ options' = [options EXCEPT ![o] = opt]
           /\ state' = [state EXCEPT ![o] = f.st]
           /\ abortController' = [abortController EXCEPT ![o] = f.ac]
           /\ pendingNotification' = [pendingNotification EXCEPT ![o] = f.pn]
           /\ Notified
           /\ calls' = [calls EXCEPT ![o] = f.calls]
           /\ intervalId' =
                [intervalId EXCEPT ![o] = setupRefetchInterval(o, options[o], opt, isNew)]
           /\ last' = [Event("fetchQuery", {o}, IF f.started THEN {o} ELSE {}, "none")
                         EXCEPT !.args = <<p, U, queryFn>>]
     /\ UNCHANGED <<subscribers, cacheTimer, timeouts, mutationVars, matchVars, refetchVars, registryVars, now, invalidating>>

\* fetchQuery called with the same queryFn every time.
FetchQuery(k, p, U) == FetchQueryFn(k, p, U, QueryFn)

IsAbsent(d) == d = "null" \/ d = "undefined"

NoDataError == "Query data is null or undefined"

\* fetchQuery returning query.state.data without the null / undefined test.
fetchQueryResultUnchecked(o, s) ==
  IF calls[o][s].phase = "rejected" THEN [threw |-> TRUE, val |-> calls[o][s].thrown]
  ELSE [threw |-> FALSE, val |-> state[o].data]

\* What fetchQuery does after `await query.fetch()` for the call in slot s.
fetchQueryResult(o, s) ==
  IF calls[o][s].phase = "rejected" THEN [threw |-> TRUE, val |-> calls[o][s].thrown]
  ELSE IF IsAbsent(state[o].data) THEN [threw |-> TRUE, val |-> NoDataError]
  ELSE [threw |-> FALSE, val |-> state[o].data]

\* QueryClient.fetchQuery after its await: the call returns or throws.
FetchQueryReturn(o, s) ==
  /\ calls[o][s].caller = "fetchQuery"
  /\ calls[o][s].phase \in {"resolved", "rejected"}
  /\ LET r == fetchQueryResult(o, s)
     IN last' = Event(IF r.threw THEN "fetchQueryThrew" ELSE "fetchQueryReturned",
                      {o}, {}, r.val)
  /\ calls' = [calls EXCEPT ![o][s] = FreeCall]
  /\ UNCHANGED <<subscriptionVars, mutationVars, matchVars, refetchVars, now, cache, created, fn, registryVars, state, options, abortController,
                 notifyVars, invalidating>>

\* QueryClient.setQueryData(queryKey, data), data a value or an updater.
SetQueryData(k, d) ==
  LET isNew == cache[k] = 0
      o == <<k, IF isNew THEN created[k] + 1 ELSE cache[k]>>
  IN /\ isNew => created[k] < MaxGen
     /\ cache' = [cache EXCEPT ![k] = o[2]]
     /\ created' = [created EXCEPT ![k] = IF isNew THEN @ + 1 ELSE @]
     /\ fn' = [fn EXCEPT ![o] = constructedFn(o, isNew, Placeholder(d))]
     /\ options' = [options EXCEPT ![o] = IF isNew THEN DefaultOptions ELSE @]
     /\ state' = [state EXCEPT ![o] =
                    [status |-> "success", data |-> newData(d, state[o].data),
                     error |-> "undefined", updatedAt |-> now]]
     /\ pendingNotification' = [pendingNotification EXCEPT ![o] = TRUE]
     /\ Notified
     /\ last' = Event("setQueryData", {o}, {}, d)
     /\ UNCHANGED <<subscriptionVars, mutationVars, matchVars, refetchVars, registryVars, now, abortController, calls, invalidating>>

\* JSON.stringify(value): the text, given as the value it denotes.  An
\* undefined element of an array is written as null and a property whose
\* value is undefined is left out.
RECURSIVE Stringified(_)
Stringified(v) ==
  IF v.t = "array"
  THEN [v EXCEPT !.kids =
          [i \in 1..Len(v.kids) |->
             [k |-> v.kids[i].k,
              v |-> IF v.kids[i].v.t = "undefined" THEN Null
                    ELSE Stringified(v.kids[i].v)]]]
  ELSE IF v.t = "object"
  THEN [v EXCEPT !.kids =
          LET kept == SelectSeq(v.kids, LAMBDA kid : kid.v.t # "undefined")
          IN [i \in 1..Len(kept) |-> [k |-> kept[i].k, v |-> Stringified(kept[i].v)]]]
  ELSE v
JSONstringify(v) == [json |-> Stringified(v)]
JSONparse(text) == text.json

\* typeof
typeof(v) ==
  IF v.t \in {"null", "array", "object"} THEN "object" ELSE v.t

\* a === b, a being part of a freshly parsed key: primitives of the same
\* kind and text; two objects are never the same object.
StrictEquals(a, b) ==
  /\ a.t = b.t
  /\ a.t \notin {"array", "object"}
  /\ a.s = b.s

\* Object.keys(v) and v[name]
ObjectKeys(v) == [i \in 1..Len(v.kids) |-> v.kids[i].k]
Get(v, name) ==
  IF \E i \in 1..Len(v.kids) : v.kids[i].k = name
  THEN v.kids[CHOOSE i \in 1..Len(v.kids) : v.kids[i].k = name].v
  ELSE Undefined

\* QueryClient.deepEqual
RECURSIVE deepEqual(_, _)
deepEqual(a, b) ==
  IF StrictEquals(a, b) THEN TRUE
  ELSE IF typeof(a) # typeof(b) THEN FALSE
  ELSE IF a.t \notin {"null", "undefined"} /\ b.t \notin {"null", "undefined"}
          /\ typeof(a) = "object"
  THEN IF a.t = "array" /\ b.t = "array"
       THEN IF Len(a.kids) # Len(b.kids) THEN FALSE
            ELSE \A idx \in 1..Len(a.kids) : deepEqual(a.kids[idx].v, b.kids[idx].v)
       ELSE LET aKeys == ObjectKeys(a)
                bKeys == ObjectKeys(b)
            IN IF Len(aKeys) # Len(bKeys) THEN FALSE
               ELSE \A i \in 1..Len(aKeys) :
                      deepEqual(Get(a, aKeys[i]), Get(b, aKeys[i]))
  ELSE FALSE

\* QueryClient.matchKey(serialized, keyPart); a serialized key always
\* parses.
matchKey(serialized, keyPart) ==
  LET key == JSONparse(serialized)
  IN IF typeof(keyPart) = "string" THEN StrictEquals(key, keyPart)
     ELSE IF key.t = "array" /\ keyPart.t = "array"
     THEN /\ Len(keyPart.kids) <= Len(key.kids)
          /\ \A i \in 1..Len(keyPart.kids) : deepEqual(key.kids[i].v, keyPart.kids[i].v)
     ELSE FALSE

\* The key of the model's entries as the caller wrote it: an array of
\* strings.
KeyValue(k) == Arr([i \in 1..Len(k) |-> Scalar("string", k[i])])

\* matchKey on the keys of the model's entries: the key as stored and a
\* partial key.
KeyMatches ==
  [k \in Keys, kp \in Keys |-> matchKey(JSONstringify(KeyValue(k)), KeyValue(kp))]

\* The entries a bulk operation visits: those of cache.entries() that match.
Matched(kp) ==
  {o \in Obj : Registered(o) /\ (~kp.given \/ KeyMatches[KeyOf(o), kp.key])}

MutationSubscribed == {mutationSubscribers[i] : i \in DOMAIN mutationSubscribers}

\* notifyMutationSubscribers run before the ticket is added or deleted: the
\* callbacks read the count the client had before the step.
notifyMutationSubscribersEarly(T, active) ==
  forEachSubscriber(mutationSubscribers, T, Cardinality(activeMutations))

\* QueryClient.notifyMutationSubscribers with the tickets in active: the
\* same forEach with try / catch as Query.notify has, over
\* mutationSubscribers; a callback reads getActiveMutationCount().
notifyMutationSubscribers(T, active) ==
  forEachSubscriber(mutationSubscribers, T, Cardinality(active))

\* QueryClient.mutate up to its await: the ticket is added, the mutation
\* subscribers are called and mutationFn is called.  The call's id (Date.now() and Math.random()) is taken to differ
\* from every other call's.
Mutate(m, opts) ==
  /\ m = Len(mutations) + 1
  /\ activeMutations' = activeMutations \cup {m}
  /\ mutations' = Append(mutations,
                         [NoMutation EXCEPT !.phase = "pending", !.options = opts])
  /\ \E T \in SUBSET MutationSubscribed :
       last' = [Event("mutate", {}, {}, "none") EXCEPT
                  !.called = notifyMutationSubscribers(T, activeMutations \cup {m})]
  /\ UNCHANGED <<mutationSubscribers, subscriptionVars, matchVars, refetchVars, now, cache, created, fn, registryVars, state, options,
                 abortController, notifyVars, calls, invalidating>>

\* QueryClient.subscribeToMutations(callback)
SubscribeToMutations(cb) ==
  /\ mutationSubscribers' = SetAdd(mutationSubscribers, cb)
  /\ last' = Event("subscribeToMutations", {}, {}, cb)
  /\ UNCHANGED <<activeMutations, mutations, subscriptionVars, matchVars, refetchVars, now, cache, created, fn, registryVars,
                 state, options, abortController, notifyVars, calls, invalidating>>

\* The function subscribeToMutations returned, called.
UnsubscribeFromMutations(cb) ==
  /\ mutationSubscribers' = SetDelete(mutationSubscribers, cb)
  /\ last' = Event("unsubscribeFromMutations", {}, {}, cb)
  /\ UNCHANGED <<activeMutations, mutations, subscriptionVars, matchVars, refetchVars, now, cache, created, fn, registryVars,
                 state, options, abortController, notifyVars, calls, invalidating>>

\* options.onSuccess?.(arg) / options.onError?.(arg): the calls made so far
\* to a callback of the given kind, after this one.
Called(kind, arg, sofar) == IF kind = "absent" THEN sofar ELSE Append(sofar, arg)

\* mutate's catch block entered with error after the calls onSuccess made
\* to options.onSuccess: onError is called and error thrown again, unless
\* onError throws itself.
mutateCatch(opts, error, onSuccess) ==
  [onSuccess |-> onSuccess, onError |-> Called(opts.onError, error, <<>>),
   threw |-> TRUE,
   res |-> IF opts.onError = "throws" THEN OnErrorError ELSE error]

\* mutate's try and catch blocks once mutationFn has resolved to v (ok) or
\* rejected with v (~ok).
mutateTry(opts, ok, v) ==
  IF ok
  THEN IF opts.onSuccess = "throws"
       THEN mutateCatch(opts, OnSuccessError, <<v>>)
       ELSE [onSuccess |-> Called(opts.onSuccess, v, <<>>), onError |-> <<>>,
             threw |-> FALSE, res |-> v]
  ELSE mutateCatch(opts, v, <<>>)

\* The rest of mutate after its await, finally block included: the
\* callbacks run, the ticket is deleted and the call returns or throws.
MutationSettle(m, ok, v, ev) ==
  /\ activeMutations' = activeMutations \ {m}
  /\ mutations' = [mutations EXCEPT ![m] =
                     [phase |-> "done", options |-> @.options, ok |-> ok, op |-> v]
                       @@ mutateTry(@.options, ok, v)]
  /\ \E T \in SUBSET MutationSubscribed :
       last' = [Event(ev, {}, {}, v) EXCEPT
                  !.called = notifyMutationSubscribers(T, activeMutations \ {m})]
  /\ UNCHANGED <<mutationSubscribers, subscriptionVars, matchVars, refetchVars, now, cache, created, fn, registryVars, state, options,
                 abortController, notifyVars, calls, invalidating>>

\* mutationFn resolves to d.
MutationResolve(m, d) ==
  /\ m \in DOMAIN mutations
  /\ mutations[m].phase = "pending"
  /\ MutationSettle(m, TRUE, d, "mutationResolve")

\* mutationFn rejects with e.
MutationReject(m, e) ==
  /\ m \in DOMAIN mutations
  /\ mutations[m].phase = "pending"
  /\ MutationSettle(m, FALSE, e, "mutationReject")

\* QueryCache.clear(), with no cleanup timer of the cache set.
clear == [k \in Keys |-> 0]

\* QueryClient.clear()
Clear ==
  /\ cache' = clear
  /\ activeMutations' = {}
  /\ last' = Event("clear", {}, {}, "none")
  /\ UNCHANGED <<subscriptionVars, matchVars, refetchVars, mutations, mutationSubscribers, now, created, fn, registryVars, state, options,
                 abortController, notifyVars, calls, invalidating>>

\* QueryClient.getActiveMutationCount()
getActiveMutationCount == Cardinality(activeMutations)

\* matchKey applied, once, to the serialization of a key and a partial key.
MatchKey(K, P) ==
  /\ ~matchCall.called
  /\ matchCall' = [called |-> TRUE, queryKey |-> K, keyPart |-> P,
                    res |-> matchKey(JSONstringify(K), P)]
  /\ last' = Event("matchKey", {}, {}, "none")
  /\ UNCHANGED <<subscriptionVars, mutationVars, refetchVars, now, cache, created, fn, registryVars, state, options,
                 abortController, notifyVars, calls, invalidating>>

\* The lookup of getQueryData(P), of setQueryData(P, ...) or of
\* fetchQuery with key P, made once, in a cache where an entry is stored
\* under key K: the Map is read with JSON.stringify(P) and has the entry
\* under JSON.stringify(K).
KeyLookup(K, P) ==
  /\ ~matchCall.called
  /\ matchCall' = [called |-> TRUE, queryKey |-> K, keyPart |-> P,
                    res |-> JSONstringify(P) = JSONstringify(K)]
  /\ last' = Event("keyLookup", {}, {}, "none")
  /\ UNCHANGED <<subscriptionVars, mutationVars, refetchVars, now, cache, created, fn, registryVars, state, options,
                 abortController, notifyVars, calls, invalidating>>

\* QueryClient.getQueries(keyPart): the key and the state of every entry of
\* cache.entries() that keyPart is undefined for or matchKey accepts.
getQueries(kp) == {[key |-> KeyOf(o), state |-> state[o]] : o \in Matched(kp)}

GetQueries(kp) ==
  /\ last' = [Event("getQueries", {}, {}, getQueries(kp)) EXCEPT !.args = <<kp>>]
  /\ UNCHANGED <<subscriptionVars, mutationVars, matchVars, refetchVars, now, cache, created, fn, registryVars,
                 state, options, abortController, notifyVars, calls, invalidating>>

\* QueryClient.getQueryData(queryKey): query?.state.data
getQueryData(k) == IF cache[k] = 0 THEN "undefined" ELSE state[<<k, cache[k]>>].data

GetQueryData(k) ==
  /\ last' = [Event("getQueryData", {}, {}, getQueryData(k)) EXCEPT !.args = <<k>>]
  /\ UNCHANGED <<subscriptionVars, mutationVars, matchVars, refetchVars, now, cache, created, fn, registryVars,
                 state, options, abortController, notifyVars, calls, invalidating>>

\* A client whose cache field is a QueryCache of its own.
QueryClientCacheOwn(c) == IF c = "queryClient" THEN getInstance ELSE OtherCache

\* The field initializer `cache = QueryCache.getInstance()` of QueryClient:
\* the QueryCache client c holds once constructed.
QueryClientCache(c) == getInstance

\* new QueryClient(config)
NewQueryClient(c) ==
  /\ clientCache[c] = "none"
  /\ clientCache' = [clientCache EXCEPT ![c] = QueryClientCache(c)]
  /\ last' = Event("newQueryClient", {}, {}, c)
  /\ UNCHANGED <<otherCache, subscriptionVars, mutationVars, matchVars, refetchVars, now, cache,
                 created, fn, state, options, abortController, notifyVars, calls, invalidating>>

\* Client c exists and its cache field is the QueryCache whose map the
\* variable cache is: the client actions of the model are its methods.
Through(c) == clientCache[c] = getInstance

\* getQueryData of client c: the lookup goes to the QueryCache in its field.
clientGetQueryData(c, k) ==
  LET map == IF clientCache[c] = getInstance THEN cache ELSE otherCache
  IN IF map[k] = 0 THEN "undefined" ELSE state[<<k, map[k]>>].data

ClientGetQueryData(c, k) ==
  /\ clientCache[c] # "none"
  /\ last' = [Event("getQueryData", {}, {}, clientGetQueryData(c, k)) EXCEPT !.args = <<k, c>>]
  /\ UNCHANGED <<subscriptionVars, mutationVars, matchVars, refetchVars, now, cache, created, fn, registryVars,
                 state, options, abortController, notifyVars, calls, invalidating>>

\* QueryCache.set(key, query) on the QueryCache made with new QueryCache():
\* a caller stores an existing Query there as well.
OtherCacheSet(o) ==
  /\ Exists(o)
  /\ otherCache[KeyOf(o)] = 0
  /\ otherCache' = [otherCache EXCEPT ![KeyOf(o)] = o[2]]
  /\ last' = Event("otherCacheSet", {o}, {}, "none")
  /\ UNCHANGED <<clientCache, subscriptionVars, mutationVars, matchVars, refetchVars, now, cache,
                 created, fn, state, options, abortController, notifyVars, calls, invalidating>>

\* QueryClient.cancelQueries(keyPart)
CancelQueries(kp) ==
  /\ calls' = [o \in Obj |->
                 IF o \in Matched(kp) /\ abortController[o] # 0
                 THEN AbortCurrent(o, calls[o], "cancelled") ELSE calls[o]]
  /\ abortController' = [o \in Obj |-> IF o \in Matched(kp) THEN 0 ELSE abortController[o]]
  /\ last' = Event("cancelQueries", Matched(kp), {}, "none")
  /\ UNCHANGED <<subscriptionVars, mutationVars, matchVars, refetchVars, now, cache, created, fn, registryVars, state, options, notifyVars, invalidating>>

\* QueryClient.invalidateQueries(keyPart) up to `await Promise.all(tasks)`:
\* every matched entry gets updatedAt = 0 and staleTime = 0, and fetch() is called.
invalidated(o, c) ==
  fetch(o, [state[o] EXCEPT !.updatedAt = 0], [options[o] EXCEPT !.staleTime = 0],
        FreeSlot(o), "invalidate", options[o].staleTime, c)

\* The tasks of invalidateQueries calls that zeroed the staleTime of entry o
\* and have not run their restore yet.
RestoreOutstanding(o) ==
  {s \in Slots : calls[o][s].caller = "invalidate" /\ calls[o][s].phase # "finally"}

\* The staleTime an invalidateQueries call starting now has to leave on entry o.
OriginalStaleTime(o) ==
  IF options[o].staleTime > 0 \/ RestoreOutstanding(o) = {}
  THEN options[o].staleTime
  ELSE calls[o][CHOOSE s \in RestoreOutstanding(o) :
                  \A t \in RestoreOutstanding(o) : s <= t].base

InvalidateQueries(c, kp) ==
  LET M == Matched(kp)
  IN /\ c \notin invalidating
     /\ \A o \in M : HasFree(o)
     /\ invalidating' = invalidating \cup {c}
     /\ state' = [o \in Obj |-> IF o \in M THEN invalidated(o, c).st ELSE state[o]]
     /\ options' = [o \in Obj |->
                      IF o \in M THEN [options[o] EXCEPT !.staleTime = 0] ELSE options[o]]
     /\ abortController' =
          [o \in Obj |-> IF o \in M THEN invalidated(o, c).ac ELSE abortController[o]]
     /\ pendingNotification' =
          [o \in Obj |-> IF o \in M THEN invalidated(o, c).pn ELSE pendingNotification[o]]
     /\ Notified
     /\ calls' = [o \in Obj |->
                    IF o \in M
                    THEN [invalidated(o, c).calls EXCEPT
                            ![FreeSlot(o)].base = OriginalStaleTime(o)]
                    ELSE calls[o]]
     /\ last' = Event("invalidate", M, {o \in M : invalidated(o, c).started}, "none")
     /\ UNCHANGED <<subscriptionVars, mutationVars, matchVars, refetchVars, now, cache, created, fn, registryVars>>

\* The task's chain without .catch(): a rejection of fetch() stays in the task.
InvalidateFinallyUncaught(o, s) ==
  /\ calls[o][s].caller = "invalidate"
  /\ calls[o][s].phase \in {"resolved", "rejected"}
  /\ options' = [options EXCEPT ![o].staleTime = calls[o][s].originalStale]
  /\ pendingNotification' = [pendingNotification EXCEPT ![o] = TRUE]
  /\ Notified
  /\ calls' = [calls EXCEPT ![o][s].phase = "finally"]
  /\ last' = Event("invalidateFinally", {o}, {}, "none")
  /\ UNCHANGED <<subscriptionVars, mutationVars, matchVars, refetchVars, now, cache, created, fn, registryVars, state, abortController, invalidating>>

\* The .catch().finally() chained on one matched entry's fetch(): a rejection
\* is logged and swallowed, staleTime is restored and forceNotify() called.
InvalidateFinally(o, s) ==
  /\ calls[o][s].caller = "invalidate"
  /\ calls[o][s].phase \in {"resolved", "rejected"}
  /\ options' = [options EXCEPT ![o].staleTime = calls[o][s].originalStale]
  /\ pendingNotification' = [pendingNotification EXCEPT ![o] = TRUE]
  /\ Notified
  /\ calls' = [calls EXCEPT ![o][s].phase = "finally", ![o][s].thrown = "none"]
  /\ last' = Event("invalidateFinally", {o}, {}, "none")
  /\ UNCHANGED <<subscriptionVars, mutationVars, matchVars, refetchVars, now, cache, created, fn, registryVars, state, abortController, invalidating>>

\* The slots holding the tasks of invalidateQueries call c.
TasksOf(c) == {os \in Obj \X Slots : calls[os[1]][os[2]].inv = c}

\* What `await Promise.all(tasks)` of call c throws: the rejection of a task,
\* "none" when every task is fulfilled.
PromiseAll(c) ==
  LET rejected == {os \in TasksOf(c) : calls[os[1]][os[2]].thrown # "none"}
  IN IF rejected = {} THEN "none"
     ELSE LET os == CHOOSE x \in rejected : TRUE IN calls[os[1]][os[2]].thrown

\* invalidateQueries after `await Promise.all(tasks)`: notifyQueryChange(key)
\* for every affected key, then the call returns; a rejected task makes the
\* call fail before it notifies.
InvalidateReturn(c) ==
  LET affectedQueries == {KeyOf(os[1]) : os \in TasksOf(c)}
      notifiedObjs == {o \in Obj : PromiseAll(c) = "none"
                                    /\ KeyOf(o) \in affectedQueries /\ Registered(o)}
  IN /\ c \in invalidating
     /\ \A os \in TasksOf(c) : calls[os[1]][os[2]].phase = "finally"
     /\ invalidating' = invalidating \ {c}
     /\ pendingNotification' =
          [o \in Obj |-> IF o \in notifiedObjs THEN TRUE ELSE pendingNotification[o]]
     /\ Notified
     /\ calls' = [o \in Obj |-> [s \in Slots |->
                    IF calls[o][s].inv = c THEN FreeCall ELSE calls[o][s]]]
     /\ last' = Event(IF PromiseAll(c) = "none" THEN "invalidateReturn"
                      ELSE "invalidateThrew",
                      {os[1] : os \in TasksOf(c)}, {}, PromiseAll(c))
     /\ UNCHANGED <<subscriptionVars, mutationVars, matchVars, refetchVars, now, cache, created, fn, registryVars, state, options, abortController>>

\* A timeout that is due runs before the clock moves on.
Advance ==
  /\ now < MaxTime
  /\ \A o \in Obj : \A tm \in timeouts[o] : tm.due > now
  /\ now' = now + 1
  /\ last' = Event("advance", {}, {}, "none")
  /\ UNCHANGED <<subscriptionVars, mutationVars, matchVars, refetchVars, cache, created, fn, registryVars, state, options, abortController,
                 notifyVars, calls, invalidating>>

TheKey == <<"todos">>
TheEntries == {o \in Obj : KeyOf(o) = TheKey}

\* One entry over time: fetches and manual writes on one key, with every
\* kind of staleTime.  The entry is constructed by fetchQuery.
EntryNext ==
  \/ Advance
  \/ \E p \in StaleOptions : FetchQuery(TheKey, p, {})
  \/ \E o \in TheEntries, s \in Slots : FetchQueryReturn(o, s)
  \/ \E o \in TheEntries : FetchCall(o)
  \/ \E o \in TheEntries, s \in Slots, d \in DataValues : OpResolve(o, s, d)
  \/ \E o \in TheEntries, s \in Slots, e \in Errors : OpReject(o, s, e)
  \/ \E d \in DataValues : cache[TheKey] # 0 /\ SetQueryData(TheKey, d)
  \/ \E o \in TheEntries : \E T \in SUBSET Subscribed(o) : NotifyFlush(o, T)

SpecEntry == Init /\ [][EntryNext]_vars

\* One entry that is always stale, at one clock reading: fetches, cancellation
\* and manual writes racing on one key.  The entry is constructed by fetchQuery.
CancelNext ==
  \/ \E p \in ZeroStale : FetchQuery(TheKey, p, {})
  \/ \E o \in TheEntries, s \in Slots : FetchQueryReturn(o, s)
  \/ \E o \in TheEntries : FetchCall(o)
  \/ \E o \in TheEntries, s \in Slots, d \in DataValues : OpResolve(o, s, d)
  \/ \E o \in TheEntries, s \in Slots, e \in Errors : OpReject(o, s, e)
  \/ \E o \in TheEntries : Cancel(o)
  \/ \E kp \in KeyParts : CancelQueries(kp)
  \/ \E d \in DataValues : cache[TheKey] # 0 /\ SetQueryData(TheKey, d)
  \/ \E o \in TheEntries : \E T \in SUBSET Subscribed(o) : NotifyFlush(o, T)

SpecCancel == Init /\ [][CancelNext]_vars

\* One entry reached through fetchQuery at one clock reading, with and
\* without suspense, whose operation may resolve to null.
ClientNext ==
  \/ \E p \in SuspenseOptions : FetchQuery(TheKey, p, {})
  \/ \E o \in TheEntries, s \in Slots : FetchQueryReturn(o, s)
  \/ \E o \in TheEntries, s \in Slots, d \in Resolutions : OpResolve(o, s, d)
  \/ \E o \in TheEntries, s \in Slots, e \in Errors : OpReject(o, s, e)
  \/ \E o \in TheEntries : Cancel(o)
  \/ \E d \in DataValues : SetQueryData(TheKey, d)

SpecClient == Init /\ [][ClientNext]_vars

\* A continuation of an awaited promise is queued: the one of fetchQuery's
\* `await query.fetch()`, a task's .catch().finally(), or the one of
\* invalidateQueries' `await Promise.all(tasks)`.
JobsPending ==
  \/ \E o \in Obj, s \in Slots : calls[o][s].phase \in {"resolved", "rejected"}
  \/ \E c \in invalidating : \A os \in TasksOf(c) : calls[os[1]][os[2]].phase = "finally"

\* Bulk invalidation racing with fetchQuery and setQueryData on one entry,
\* every fetchQuery call configuring the same finite staleTime.  Each client
\* call is made from a task of its own, and the operations settle from I/O,
\* the clock and the notification timer from timers: all of them run only
\* when no promise continuation is queued.
InvalidateNext ==
  \/ \E o \in TheEntries, s \in Slots : FetchQueryReturn(o, s)
  \/ \E o \in TheEntries, s \in Slots : InvalidateFinally(o, s)
  \/ \E c \in InvIds : InvalidateReturn(c)
  \/ ~JobsPending /\ Advance
  \/ ~JobsPending /\ \E p \in FiniteStale : FetchQuery(TheKey, p, {})
  \/ ~JobsPending /\ \E o \in TheEntries, s \in Slots, d \in DataValues : OpResolve(o, s, d)
  \/ ~JobsPending /\ \E o \in TheEntries, s \in Slots, e \in Errors : OpReject(o, s, e)
  \/ ~JobsPending /\ \E d \in DataValues : SetQueryData(TheKey, d)
  \/ ~JobsPending /\ \E c \in InvIds, kp \in KeyParts : InvalidateQueries(c, kp)
  \/ ~JobsPending /\ \E o \in TheEntries : \E T \in SUBSET Subscribed(o) : NotifyFlush(o, T)

SpecInvalidate == Init /\ [][InvalidateNext]_vars

\* Bulk invalidation over both keys, entries with and without suspense,
\* scheduled as in InvalidateNext.
IsolateNext ==
  \/ \E o \in Obj, s \in Slots : FetchQueryReturn(o, s)
  \/ \E o \in Obj, s \in Slots : InvalidateFinally(o, s)
  \/ \E c \in InvIds : InvalidateReturn(c)
  \/ ~JobsPending /\ \E k \in Keys, p \in ZeroStaleSuspense : FetchQuery(k, p, {})
  \/ ~JobsPending /\ \E o \in Obj, s \in Slots : OpResolve(o, s, "d1")
  \/ ~JobsPending /\ \E o \in Obj, s \in Slots, e \in Errors : OpReject(o, s, e)
  \/ ~JobsPending /\ \E c \in InvIds, kp \in KeyParts : InvalidateQueries(c, kp)

SpecIsolate == Init /\ [][IsolateNext]_vars

\* The first entry of a key with observers, its operation pending:
\* subscriptions to the registered entry come and go, time passes and
\* eviction timeouts run; once the entry is evicted the key stays absent.
EvictNext ==
  \/ \E p \in EvictOptions :
       (cache[TheKey] # 0 \/ created[TheKey] = 0) /\ FetchQuery(TheKey, p, {})
  \/ \E o \in TheEntries, cb \in Callbacks : Registered(o) /\ Subscribe(o, cb)
  \/ \E o \in TheEntries, cb \in Callbacks : Registered(o) /\ Unsubscribe(o, cb)
  \/ \E o \in TheEntries : \E tm \in timeouts[o] : EvictionTimeout(o, tm)
  \/ Advance

SpecEvict == Init /\ [][EvictNext]_vars

\* A key over several entries: after an eviction fetchQuery constructs and
\* stores a new Query under the key while timeouts of the old one may
\* still be pending.
ReinsertNext ==
  \/ \E p \in EvictOptions : FetchQuery(TheKey, p, {})
  \/ \E o \in TheEntries, cb \in Callbacks : Registered(o) /\ Subscribe(o, cb)
  \/ \E o \in TheEntries, cb \in Callbacks : Registered(o) /\ Unsubscribe(o, cb)
  \/ \E o \in TheEntries : \E tm \in timeouts[o] : EvictionTimeout(o, tm)
  \/ Advance

SpecReinsert == Init /\ [][ReinsertNext]_vars

\* A key over several entries with client.clear(): every unsubscribe
\* undoes a subscribe, as the cleanup of the hooks' effect does, so an
\* entry has at most one timeout pending.
ResetNext ==
  \/ \E p \in EvictOptions : FetchQuery(TheKey, p, {})
  \/ \E o \in TheEntries, cb \in Callbacks : Registered(o) /\ Subscribe(o, cb)
  \/ \E o \in TheEntries, cb \in Callbacks :
       Registered(o) /\ SetHas(subscribers[o], cb) /\ Unsubscribe(o, cb)
  \/ \E o \in TheEntries : \E tm \in timeouts[o] : EvictionTimeout(o, tm)
  \/ Clear
  \/ Advance

SpecReset == Init /\ [][ResetNext]_vars

\* One entry written by setQueryData, with values and with updaters, in
\* every situation a fetch can leave it in.
SetDataNext ==
  \/ Advance
  \/ \E p \in StaleOptions : FetchQuery(TheKey, p, {})
  \/ \E o \in TheEntries, s \in Slots : FetchQueryReturn(o, s)
  \/ \E o \in TheEntries, s \in Slots, d \in DataValues : OpResolve(o, s, d)
  \/ \E o \in TheEntries, s \in Slots, e \in Errors : OpReject(o, s, e)
  \/ \E d \in DataArgs : SetQueryData(TheKey, d)

SpecSetData == Init /\ [][SetDataNext]_vars

\* One entry whose operation is retried: attempts fail or succeed and the
\* delays between them end.
RetryNext ==
  \/ \E p \in RetryOptions : FetchQuery(TheKey, p, {})
  \/ \E o \in TheEntries, s \in Slots : FetchQueryReturn(o, s)
  \/ \E o \in TheEntries, s \in Slots : OpResolve(o, s, "d1")
  \/ \E o \in TheEntries, s \in Slots, e \in RetryErrors : OpReject(o, s, e)
  \/ \E o \in TheEntries, s \in Slots : RetryAttempt(o, s)

SpecRetry == Init /\ [][RetryNext]_vars

\* Key matching on its own: a stored key and a partial key are matched.
MatchNext == \E K \in QueryKeys, P \in QueryKeys : MatchKey(K, P)

SpecMatch == Init /\ [][MatchNext]_vars

\* Keys with a filter object as second segment: the objects with up to two
\* of the properties status and page, in either order, and the keys made
\* of them.
FilterNames == {"status", "page"}
FilterValues == {Scalar("string", "1"), Scalar("string", "2")}
Filters ==
  {Object(<<>>)} \cup
  {Object(<<[k |-> n, v |-> x]>>) : n \in FilterNames, x \in FilterValues} \cup
  {Object(<<[k |-> n[1], v |-> x[1]], [k |-> n[2], v |-> x[2]]>>) :
     n \in {q \in FilterNames \X FilterNames : q[1] # q[2]},
     x \in FilterValues \X FilterValues}
FilterKeys == {Arr(<<Scalar("string", "todos"), f>>) : f \in Filters}

\* The two registered keys read while they are fetched, and the filter of
\* getQueries applied to keys whose segment is an empty array or an empty
\* object.
EmptySegmentKeys == {Arr(<<Arr(<<>>)>>), Arr(<<Object(<<>>)>>)}

ReadNext ==
  \/ \E k \in Keys, p \in ZeroStale : FetchQuery(k, p, {})
  \/ \E o \in Obj, s \in Slots : OpResolve(o, s, "d1")
  \/ \E o \in Obj, cb \in Callbacks : Registered(o) /\ Subscribe(o, cb)
  \/ \E kp \in KeyParts : GetQueries(kp)
  \/ \E k \in Keys : GetQueryData(k)
  \/ \E K \in EmptySegmentKeys, P \in EmptySegmentKeys : MatchKey(K, P)

SpecRead == Init /\ [][ReadNext]_vars

\* Key serialization on its own: an entry stored under one key is looked up
\* with another.
LookupNext == \E K \in FilterKeys, P \in FilterKeys : KeyLookup(K, P)

SpecLookup == Init /\ [][LookupNext]_vars

\* Mutations beside other client operations.
MutateNext ==
  \/ \E m \in MutIds, opts \in MutationOptions : Mutate(m, opts)
  \/ \E m \in MutIds : MutationResolve(m, "d1")
  \/ \E m \in MutIds : MutationReject(m, "e1")
  \/ Clear
  \/ SetQueryData(TheKey, "d1")

SpecMutate == Init /\ [][MutateNext]_vars

\* One entry with subscribers while it is fetched and written: every
\* change of state calls notify() and the timer-0 callback delivers.
NotifyNext ==
  \/ \E p \in ZeroStale : FetchQuery(TheKey, p, {})
  \/ \E o \in TheEntries, s \in Slots : OpResolve(o, s, "d1")
  \/ \E o \in TheEntries, s \in Slots : OpReject(o, s, "e1")
  \/ \E o \in TheEntries, s \in Slots : FetchQueryReturn(o, s)
  \/ SetQueryData(TheKey, "d2")
  \/ \E o \in TheEntries, cb \in Callbacks : Registered(o) /\ Subscribe(o, cb)
  \/ \E o \in TheEntries, cb \in Callbacks :
       Registered(o) /\ SetHas(subscribers[o], cb) /\ Unsubscribe(o, cb)
  \/ \E o \in TheEntries : \E T \in SUBSET Subscribed(o) : NotifyFlush(o, T)

SpecNotify == Init /\ [][NotifyNext]_vars

\* The same with the guarantee of the timer runtime: a timer-0 callback
\* that has been set runs.
SpecNotifyLive ==
  /\ Init /\ [][NotifyNext]_vars
  /\ \A o \in TheEntries :
       WF_vars(\E T \in SUBSET Subscribed(o) : NotifyFlush(o, T))

\* Observers that throw: subscribers of one entry and of the mutation
\* count, any of which may throw when called, while the entry is written
\* and mutations run.
ObserveNext ==
  \/ SetQueryData(TheKey, "d2")
  \/ \E o \in TheEntries, cb \in Callbacks : Registered(o) /\ Subscribe(o, cb)
  \/ \E o \in TheEntries : \E T \in SUBSET Subscribed(o) : NotifyFlush(o, T)
  \/ \E cb \in Callbacks : SubscribeToMutations(cb)
  \/ \E cb \in Callbacks : UnsubscribeFromMutations(cb)
  \/ \E m \in MutIds : Mutate(m, [onSuccess |-> "absent", onError |-> "absent"])
  \/ \E m \in MutIds : MutationResolve(m, "d1")

SpecObserve == Init /\ [][ObserveNext]_vars

\* One polled entry: it is created with a refetchInterval, subscribers come
\* and go, the interval ticks, operations settle and time passes.
PollOptions == [staleTime : {0, Infinity}, refetchInterval : {1}]

PollNext ==
  \/ \E p \in PollOptions : FetchQuery(TheKey, p, {})
  \/ \E o \in TheEntries, s \in Slots : FetchQueryReturn(o, s)
  \/ \E o \in TheEntries, cb \in Callbacks : Registered(o) /\ Subscribe(o, cb)
  \/ \E o \in TheEntries, cb \in Callbacks :
       Registered(o) /\ SetHas(subscribers[o], cb) /\ Unsubscribe(o, cb)
  \/ \E o \in TheEntries : Tick(o)
  \/ \E o \in TheEntries, s \in Slots : RefetchFinally(o, s)
  \/ \E o \in TheEntries, s \in Slots : OpResolve(o, s, "d1")
  \/ \E o \in TheEntries, s \in Slots : OpReject(o, s, "e1")
  \/ Advance

SpecPoll == Init /\ [][PollNext]_vars

\* One entry fetched several times with different options: each call
\* gives at most one option a value other than the default, passes at most
\* one as undefined and leaves the rest out.
OptionNames == DOMAIN DefaultOptions
OverrideValues ==
  [staleTime |-> 1, cacheTime |-> 1, retry |-> 1, retryDelay |-> 1, refetchInterval |-> 1,
   suspense |-> TRUE]
Overrides(S) == [f \in S |-> OverrideValues[f]]

AtMostOne == {S \in SUBSET OptionNames : Cardinality(S) <= 1}

OptionsNext ==
  \/ \E S \in AtMostOne, U \in AtMostOne : FetchQuery(TheKey, Overrides(S), U)
  \/ \E o \in TheEntries, s \in Slots : OpResolve(o, s, "d1")

SpecOptions == Init /\ [][OptionsNext]_vars

\* Mutations with observers of the mutation count: both callbacks
\* supplied, onSuccess returning or throwing, operations that resolve and
\* reject, and client.clear() while mutations are pending.
TicketOptions == [onSuccess : {"returns", "throws"}, onError : {"returns"}]

TicketNext ==
  \/ \E cb \in Callbacks : SubscribeToMutations(cb)
  \/ \E cb \in Callbacks : UnsubscribeFromMutations(cb)
  \/ \E m \in MutIds, opts \in TicketOptions : Mutate(m, opts)
  \/ \E m \in MutIds : MutationResolve(m, "d1")
  \/ \E m \in MutIds : MutationReject(m, "e1")
  \/ Clear

SpecTicket == Init /\ [][TicketNext]_vars

\* One key whose entry is constructed by fetchQuery or by setQueryData and
\* then fetched with other operations and written again.
OperationNext ==
  \/ \E p \in ZeroStale, f \in QueryFns : FetchQueryFn(TheKey, p, {}, f)
  \/ \E o \in TheEntries, s \in Slots : FetchQueryReturn(o, s)
  \/ \E o \in TheEntries, s \in Slots, d \in DataValues : OpResolve(o, s, d)
  \/ \E o \in TheEntries, s \in Slots : OpReject(o, s, "e1")
  \/ \E d \in DataArgs : SetQueryData(TheKey, d)

SpecOperation == Init /\ [][OperationNext]_vars

\* Two clients: the exported queryClient fetches the key, a client made
\* with new QueryClient(config) reads and clears it; the Query is also
\* stored in a QueryCache of the caller's own, and is subscribed to,
\* unsubscribed from and evicted.  Once the key is absent it stays so.
ShareOptions == [staleTime : {0}, cacheTime : {1}]

ShareNext ==
  \/ \E c \in Clients : NewQueryClient(c)
  \/ \E p \in ShareOptions :
       /\ Through("queryClient")
       /\ cache[TheKey] # 0 \/ created[TheKey] = 0
       /\ FetchQuery(TheKey, p, {})
  \/ \E o \in TheEntries, s \in Slots : OpResolve(o, s, "d1")
  \/ \E c \in Clients : ClientGetQueryData(c, TheKey)
  \/ Through("custom") /\ Clear
  \/ \E o \in TheEntries : OtherCacheSet(o)
  \/ \E o \in TheEntries : Registered(o) /\ Subscribe(o, "cb1")
  \/ \E o \in TheEntries :
       Registered(o) /\ SetHas(subscribers[o], "cb1") /\ Unsubscribe(o, "cb1")
  \/ \E o \in TheEntries : \E tm \in timeouts[o] : EvictionTimeout(o, tm)
  \/ Advance

SpecShare == Init /\ [][ShareNext]_vars

\* A key whose entry is cleared and constructed again while fetchQuery and
\* invalidateQueries calls on the earlier entry are between their await and
\* its continuation, scheduled as in InvalidateNext.
RecreateNext ==
  \/ \E o \in TheEntries, s \in Slots : FetchQueryReturn(o, s)
  \/ \E o \in TheEntries, s \in Slots : InvalidateFinally(o, s)
  \/ \E c \in InvIds : InvalidateReturn(c)
  \/ ~JobsPending /\ \E p \in ZeroStale : FetchQuery(TheKey, p, {})
  \/ ~JobsPending /\ \E o \in TheEntries, s \in Slots, d \in DataValues : OpResolve(o, s, d)
  \/ ~JobsPending /\ \E c \in InvIds, kp \in KeyParts : InvalidateQueries(c, kp)
  \/ ~JobsPending /\ Clear

SpecRecreate == Init /\ [][RecreateNext]_vars

Next ==
  \/ EntryNext
  \/ \E o \in Obj : Cancel(o)
  \/ \E kp \in KeyParts : CancelQueries(kp)
  \/ \E o \in Obj, s \in Slots : RetryAttempt(o, s)
  \/ \E c \in InvIds, kp \in KeyParts : InvalidateQueries(c, kp)
  \/ \E o \in Obj, s \in Slots : InvalidateFinally(o, s)
  \/ \E c \in InvIds : InvalidateReturn(c)
  \/ \E o \in Obj, cb \in Callbacks : Subscribe(o, cb)
  \/ \E o \in Obj, cb \in Callbacks : Unsubscribe(o, cb)
  \/ \E o \in Obj : \E tm \in timeouts[o] : EvictionTimeout(o, tm)
  \/ \E m \in MutIds, opts \in MutationOptions : Mutate(m, opts)
  \/ \E m \in MutIds, d \in DataValues : MutationResolve(m, d)
  \/ \E m \in MutIds, e \in Errors : MutationReject(m, e)
  \/ Clear
  \/ MatchNext
  \/ \E cb \in Callbacks : SubscribeToMutations(cb)
  \/ \E cb \in Callbacks : UnsubscribeFromMutations(cb)
  \/ \E o \in Obj : Tick(o)
  \/ \E o \in Obj, s \in Slots : RefetchFinally(o, s)
  \/ LookupNext
  \/ \E kp \in KeyParts : GetQueries(kp)
  \/ \E k \in Keys : GetQueryData(k)
  \/ \E c \in Clients : NewQueryClient(c)
  \/ \E c \in Clients, k \in Keys : ClientGetQueryData(c, k)
  \/ \E o \in Obj : OtherCacheSet(o)
  \/ \E p \in ZeroStale, k \in Keys, f \in QueryFns : FetchQueryFn(k, p, {}, f)

Spec == Init /\ [][Next]_vars

\* ------------------------------------------------------------------ properties

FetchEvents == {"fetch", "fetchQuery"}

\* The call in slot s of entry o completes in this step: handleSuccess or
\* handleError runs for it.
Completes(o, s) ==
  /\ calls[o][s].phase = "invoked"
  /\ calls'[o][s].phase \notin {"invoked", "delay"}

SameEntryState(o) ==
  /\ state'[o] = state[o]
  /\ pendingNotification'[o] = pendingNotification[o]

\* C1: a fetch() made while the entry is Loading invokes nothing, changes
\* neither state nor options nor the controller and schedules no notification;
\* so while an entry is Loading no call of any kind adds an invocation to the
\* one in flight (only that fetch's own retry attempts invoke again).
C1_Dedup ==
  [][\A o \in Obj :
       state[o].status = "loading" =>
         /\ last'.ev # "retry" => o \notin last'.started
         /\ (last'.ev \in FetchEvents /\ o \in last'.objs) =>
              /\ SameEntryState(o)
              /\ abortController'[o] = abortController[o]
              /\ \A s \in Slots : InFlight(calls[o][s]) => calls'[o][s] = calls[o][s]
              /\ \A s \in Slots : InFlight(calls'[o][s]) => InFlight(calls[o][s])
         /\ (last'.ev = "fetch" /\ o \in last'.objs) => options'[o] = options[o]]_vars

\* C1 witness: fetch() has just returned without effect on a Loading entry
\* whose first fetch is still in flight.
C1_Witness ==
  \E o \in last.objs :
    /\ last.ev = "fetch" /\ last.started = {}
    /\ state[o].status = "loading"
    /\ \E s \in Slots : InFlight(calls[o][s]) /\ ~Aborted(calls[o][s])

\* The entry is fresh for the staleTime given.
Fresh(o, staleTime) ==
  /\ state[o].updatedAt > 0
  /\ staleTime > 0
  /\ now < state[o].updatedAt + staleTime

\* C2: a fetch() on a settled entry issued before updatedAt + staleTime invokes
\* nothing and leaves data, error, status, updatedAt and the pending flag as
\* they were (the staleTime is the one in force when fetch() runs).
C2_FreshnessShortCircuit ==
  [][\A o \in Obj :
       (last'.ev \in FetchEvents /\ o \in last'.objs /\ Fresh(o, options'[o].staleTime))
         => /\ o \notin last'.started
            /\ SameEntryState(o)
            /\ \A s \in Slots : ~InFlight(calls[o][s]) => ~InFlight(calls'[o][s])]_vars

\* C2 witness: a fetch() has just been skipped on a Success entry that is
\* fresh, at a clock value later than its updatedAt.
C2_Witness ==
  \E o \in last.objs :
    /\ last.ev \in FetchEvents /\ last.started = {}
    /\ state[o].status = "success"
    /\ Fresh(o, options[o].staleTime)
    /\ now > state[o].updatedAt

\* C3: a fetch() on an entry that never settled (Idle, updatedAt = 0) invokes
\* the operation whatever the staleTime.
C3_FirstFetchInvokes ==
  [][\A o \in Obj :
       (last'.ev \in FetchEvents /\ o \in last'.objs
          /\ state[o].status = "idle" /\ state[o].updatedAt = 0)
         => o \in last'.started]_vars

\* C4: starting a fetch aborts the token of every fetch in flight on the
\* entry; the completion of a superseded fetch changes nothing and notifies
\* nobody, and the completion of the fetch that was not aborted writes its
\* outcome.
C4_SupersededDiscarded ==
  [][\A o \in Obj :
       /\ (o \in last'.started /\ last'.ev # "retry") =>
            \A s \in Slots : InFlight(calls[o][s]) => Aborted(calls'[o][s])
       /\ \A s \in Slots :
            (Completes(o, s) /\ calls[o][s].aborted = "superseded") => SameEntryState(o)
       /\ \A s \in Slots :
            (Completes(o, s) /\ ~Aborted(calls[o][s])) =>
               /\ state'[o].updatedAt = now
               /\ \/ (last'.ev = "resolve" /\ state'[o].status = "success"
                        /\ state'[o].data = last'.res)
                  \/ (last'.ev = "reject" /\ state'[o].status = "error"
                        /\ state'[o].error = last'.res)]_vars

\* C4 witness: the result of a superseded fetch has just arrived and differs
\* from the data of the entry, which no fetch is working on any more.
C4_Witness ==
  \E o \in last.objs :
    /\ last.ev = "resolve" /\ last.sig = "superseded"
    /\ state[o].status = "success" /\ state[o].data # last.res
    /\ \A s \in Slots : ~InFlight(calls[o][s])

\* C5: cancel() and cancelQueries() on a matching key abort every fetch in
\* flight on the entry, and the completion of a cancelled fetch, success or
\* failure, changes neither data, error, status nor updatedAt and schedules no
\* notification.
C5_CancelledDiscarded ==
  [][\A o \in Obj :
       /\ (last'.ev \in {"cancel", "cancelQueries"} /\ o \in last'.objs) =>
            \A s \in Slots : InFlight(calls'[o][s]) => Aborted(calls'[o][s])
       /\ \A s \in Slots :
            (Completes(o, s) /\ calls[o][s].aborted = "cancelled") => SameEntryState(o)]_vars

\* C5 witness: the operation of a cancelled fetch has just failed and the
\* entry is still as cancel() found it.
C5_Witness ==
  \E o \in last.objs :
    /\ last.ev = "reject" /\ last.sig = "cancelled"
    /\ state[o].status = "loading" /\ state[o].error = "undefined"

ReturnEvents == {"fetchQueryReturned", "fetchQueryThrew"}

\* C6: when a fetchQuery call returns or fails, the entry of its key has
\* status Success or Error.
C6_AwaitsSettlement ==
  \A o \in last.objs :
    last.ev \in ReturnEvents => state[o].status \in {"success", "error"}

\* The fetchQuery call in slot s of entry o returns or throws in this step.
Returns(o, s) ==
  /\ calls[o][s].caller = "fetchQuery"
  /\ calls[o][s].phase \in {"resolved", "rejected"}
  /\ calls'[o][s].phase = "free"

\* C7 as amended: fetchQuery never returns an absent value.  Its fetch() fails
\* only when suspense is enabled and the operation of that fetch failed
\* without having been superseded or cancelled, and then fetchQuery fails with
\* that error; otherwise it returns the entry's data when present and fails
\* with the 'no data' error when absent.
C7_NonNullable ==
  [][\A o \in Obj : \A s \in Slots :
       /\ (Returns(o, s) /\ calls[o][s].phase = "rejected") =>
            (last'.ev = "fetchQueryThrew" /\ last'.res = calls[o][s].thrown)
       /\ (Returns(o, s) /\ calls[o][s].phase = "resolved" /\ ~IsAbsent(state[o].data)) =>
            (last'.ev = "fetchQueryReturned" /\ last'.res = state[o].data)
       /\ (Returns(o, s) /\ calls[o][s].phase = "resolved" /\ IsAbsent(state[o].data)) =>
            (last'.ev = "fetchQueryThrew" /\ last'.res = NoDataError)
       /\ (calls'[o][s].phase = "rejected" /\ calls[o][s].phase # "rejected") =>
            /\ last'.ev = "reject" /\ last'.sig = "no"
            /\ options[o].suspense
            /\ calls'[o][s].thrown = last'.res]_vars

\* C7 witness: fetchQuery has just failed with the operation's error, not
\* with the 'no data' error.
C7_Witness ==
  /\ last.ev = "fetchQueryThrew"
  /\ last.res \in Errors
  /\ \E o \in last.objs : options[o].suspense

\* C7 as stated: fetchQuery returns the entry's data when present and
\* otherwise fails with the 'no data' error.
C7_AsStated ==
  \A o \in last.objs :
    /\ last.ev = "fetchQueryReturned" =>
         (last.res = state[o].data /\ ~IsAbsent(last.res))
    /\ last.ev = "fetchQueryThrew" =>
         (last.res = NoDataError /\ IsAbsent(state[o].data))

\* C8: invalidateQueries invokes the operation of every entry it matches.
C8_InvalidateInvokes ==
  last.ev = "invalidate" => last.started = last.objs

\* Call c of invalidateQueries returns in this step.
InvalidateReturns(c) == c \in invalidating /\ c \notin invalidating'

\* C9: when an invalidateQueries call returns, every entry it matched has its
\* original staleTime: the value it had before it was zeroed.  Stated in the
\* code's favour for the entries on which no temporary zero is in force, that
\* is, every call that zeroed the entry's staleTime has run its restore.
C9_StaleTimeRestored ==
  [][\A c \in InvIds : InvalidateReturns(c) =>
       \A os \in TasksOf(c) :
         (calls[os[1]][os[2]].base > 0 /\ RestoreOutstanding(os[1]) = {}) =>
           options'[os[1]].staleTime = calls[os[1]][os[2]].base]_vars

\* C10: when an invalidateQueries call returns, no entry it matched is
\* Loading and every matched entry still registered has a notification
\* scheduled.
C10_InvalidateWaits ==
  last.ev = "invalidateReturn" =>
    \A o \in last.objs :
      /\ state[o].status # "loading"
      /\ Registered(o) => pendingNotification[o]

\* C11: an invalidateQueries call never fails; the failure of one entry's
\* refetch, re-signalled under suspense or not, is written to that entry only
\* and leaves the state, the controller and the calls of every other entry
\* as they were, and each refetch the call started that was not superseded
\* writes its own outcome to its own entry when it completes.
C11_FailuresIsolated ==
  [][/\ last'.ev # "invalidateThrew"
     /\ \A o \in Obj : \A s \in Slots :
          (Completes(o, s) /\ calls[o][s].caller = "invalidate") =>
            /\ \A q \in Obj \ {o} :
                 /\ state'[q] = state[q]
                 /\ abortController'[q] = abortController[q]
                 /\ calls'[q] = calls[q]
            /\ ~Aborted(calls[o][s]) =>
                 \/ (last'.ev = "resolve" /\ state'[o].status = "success"
                       /\ state'[o].data = last'.res)
                 \/ (last'.ev = "reject" /\ state'[o].status = "error"
                       /\ state'[o].error = last'.res)]_vars

\* C11 witness: the refetch an invalidateQueries call started on an entry with
\* suspense has just failed and fetch() re-signalled the failure, while the
\* refetch the same call started on another entry is still in flight.
C11_Witness ==
  /\ last.ev = "reject"
  /\ \E o \in last.objs, s \in Slots, q \in Obj \ last.objs, r \in Slots :
       /\ calls[o][s].caller = "invalidate" /\ calls[o][s].thrown \in Errors
       /\ state[o].status = "error"
       /\ calls[q][r].inv = calls[o][s].inv
       /\ InFlight(calls[q][r]) /\ ~Aborted(calls[q][r])
\* C12: an unsubscribe that leaves the subscriber set empty sets a timeout
\* due cacheTime later; a pending timeout goes away only by running or by
\* a subscribe on its entry, and the clock never passes one that is due;
\* when it runs, the entry's key leaves the registry and the entry's
\* polling interval is stopped.
C12_DeferredEviction ==
  [][\A o \in Obj :
       /\ (last'.ev = "unsubscribe" /\ o \in last'.objs /\ subscribers'[o] = <<>>) =>
            \E tm \in timeouts'[o] \ timeouts[o] : tm.due = now + options[o].cacheTime
       /\ \A tm \in timeouts[o] :
            /\ tm.due >= now'
            /\ tm \notin timeouts'[o] =>
                 \/ last'.ev = "subscribe" /\ o \in last'.objs
                 \/ /\ last'.ev = "evict" /\ o \in last'.objs
                    /\ now' = tm.due
                    /\ cache'[KeyOf(o)] = 0
                    /\ ~intervalId'[o]]_vars

\* An entry that polled was left without subscribers and its timeout ran
\* cacheTime later with no subscriber having come back.
C12_Witness ==
  /\ last.ev = "evict"
  /\ now > 1
  /\ \E o \in last.objs :
       /\ options[o].refetchInterval > 0
       /\ options[o].cacheTime = 1
       /\ subscribers[o] = <<>>
       /\ timeouts[o] = {}
       /\ cache[KeyOf(o)] = 0
       /\ ~intervalId[o]

\* C13: an eviction timeout removes an entry only when the entry has no
\* subscriber.
C13_NeverEvictedWhileSubscribed ==
  [][last'.ev = "evict" =>
       \A o \in Obj : (Registered(o) /\ cache'[KeyOf(o)] = 0) => subscribers[o] = <<>>]_vars

\* C14: a setQueryData call invokes no operation and aborts none, and when
\* it returns the key is registered with status Success, updatedAt = now
\* and data the given value, or the updater applied to the data the entry
\* held (undefined when the key had no entry), whatever the entry's status
\* was.
C14_SetQueryDataWrites ==
  [][last'.ev = "setQueryData" =>
       \A o \in last'.objs :
         LET prev == IF cache[KeyOf(o)] = 0 THEN "undefined" ELSE state[o].data
         IN /\ Registered(o)'
            /\ cache[KeyOf(o)] # 0 => Registered(o)
            /\ state'[o].status = "success"
            /\ state'[o].updatedAt = now'
            /\ state'[o].data = IF last'.res \in Updaters THEN Call(last'.res, prev)
                                ELSE last'.res
            /\ calls' = calls
            /\ abortController' = abortController]_vars

\* An updater has just been applied to the data of an entry whose fetch is
\* still in flight.
C14_Witness ==
  /\ last.ev = "setQueryData"
  /\ last.res \in Updaters
  /\ \E o \in last.objs :
       /\ state[o].data = "d2"
       /\ state[o].status = "success"
       /\ \E s \in Slots : InFlight(calls[o][s]) /\ ~Aborted(calls[o][s])

RECURSIVE StructurallyEqual(_, _)
StructurallyEqual(a, b) ==
  /\ a.t = b.t
  /\ a.s = b.s
  /\ Len(a.kids) = Len(b.kids)
  /\ {a.kids[i].k : i \in 1..Len(a.kids)} = {b.kids[i].k : i \in 1..Len(b.kids)}
  /\ \A i \in 1..Len(a.kids) : StructurallyEqual(a.kids[i].v, Get(b, a.kids[i].k))

\* A value JSON can represent: there is no undefined in it.
RECURSIVE Representable(_)
Representable(v) ==
  /\ v.t # "undefined"
  /\ \A i \in 1..Len(v.kids) : Representable(v.kids[i].v)

\* C17: for a stored key and a partial key made of JSON-representable
\* segments, matchKey answers true exactly when the partial key's segments
\* are a prefix of the stored key's under structural deep equality; a
\* string partial key matches the identical string key only.
C17_StructuralPrefix ==
  LET K == matchCall.queryKey
      P == matchCall.keyPart
  IN (matchCall.called /\ Representable(K) /\ Representable(P)) =>
       IF P.t = "string"
       THEN matchCall.res = (K.t = "string" /\ K.s = P.s)
       ELSE K.t = "array" =>
              matchCall.res =
                (/\ Len(P.kids) <= Len(K.kids)
                 /\ \A i \in 1..Len(P.kids) :
                      StructurallyEqual(P.kids[i].v, K.kids[i].v))

\* The mutate calls that have started and not completed.
InFlightMutations == {m \in DOMAIN mutations : mutations[m].phase = "pending"}

\* C18: getActiveMutationCount() is the number of mutate calls started and
\* not yet completed.
C18_MutationCount == getActiveMutationCount = Cardinality(InFlightMutations)

\* C19: a completed mutate call whose callbacks were both supplied has
\* called exactly one of them, once: onSuccess with the result when the
\* operation succeeded, and then it returned the result; onError with the
\* failure when the operation failed, and then it failed with that failure.
C19_MutationCallbacks ==
  \A m \in DOMAIN mutations :
    LET c == mutations[m]
    IN (c.phase = "done" /\ c.options.onSuccess # "absent" /\ c.options.onError # "absent") =>
         IF c.ok
         THEN c.onSuccess = <<c.op>> /\ c.onError = <<>> /\ ~c.threw /\ c.res = c.op
         ELSE c.onError = <<c.op>> /\ c.onSuccess = <<>> /\ c.threw /\ c.res = c.op

C21_ReinsertionCancelsEviction ==
  [][last'.ev = "evict" =>
       \A o \in last'.objs :
         cache[KeyOf(o)] > o[2] => cache'[KeyOf(o)] = cache[KeyOf(o)]]_vars

\* C22: clear() leaves no key registered, and a timeout that was pending
\* when clear() ran removes nothing afterwards: the timeout of an entry that
\* is no longer registered leaves the registry as it is.  (With every
\* unsubscribe undoing a subscribe, an unregistered entry with a pending
\* timeout is one that clear() dropped.)
C22_ClearIsFullReset ==
  [][/\ last'.ev = "clear" => \A k \in Keys : cache'[k] = 0
     /\ last'.ev = "evict" =>
          \A o \in last'.objs : ~Registered(o) => cache' = cache]_vars

\* C23: however many notify() calls an entry gets before its timer-0
\* callback runs, one callback is pending: the flag is up exactly while one
\* callback is set and not yet run, and never more than one is.  When the
\* callback runs the flag goes down, the state is left alone, and every
\* subscriber the entry has then is called once, in the order of
\* subscription, and reads the state the entry has then.
C23_NotificationBatching ==
  [][\A o \in Obj :
       /\ notificationTimer[o] = (IF pendingNotification[o] THEN 1 ELSE 0)
       /\ notificationTimer'[o] = (IF pendingNotification'[o] THEN 1 ELSE 0)
       /\ (last'.ev = "notified" /\ o \in last'.objs) =>
            /\ pendingNotification[o] /\ ~pendingNotification'[o]
            /\ state' = state
            /\ Len(last'.called) = Len(subscribers[o])
            /\ \A i \in DOMAIN subscribers[o] :
                 /\ last'.called[i].cb = subscribers[o][i]
                 /\ last'.called[i].saw = state[o]
            /\ \A i, j \in DOMAIN last'.called :
                 last'.called[i].cb = last'.called[j].cb => i = j]_vars

\* A batch was delivered to two subscribers of which the second, cb1,
\* had subscribed last, after a fetch had settled the entry.
C23_Witness ==
  /\ last.ev = "notified"
  /\ Len(last.called) = 2
  /\ last.called[1].cb = "cb2"
  /\ last.called[2].cb = "cb1"
  /\ last.called[2].saw.status = "success"
  /\ last.called[2].saw.data = "d1"
  /\ \A o \in last.objs : ~pendingNotification[o] /\ notificationTimer[o] = 0

\* C24: a subscriber that throws while a batch is delivered, to the
\* subscribers of an entry or to those of the mutation count, stops
\* nothing: every subscriber is called, what was thrown is caught, so
\* nothing reaches the code that changed the state (the mutate call goes
\* on and settles as it would), and the entry's state and flag are what a
\* batch without failures leaves.
C24_SubscriberFailureIsolated ==
  [][/\ last'.ev = "notified" =>
          \A o \in last'.objs :
            /\ {last'.called[i].cb : i \in DOMAIN last'.called} = Subscribed(o)
            /\ \A i \in DOMAIN last'.called : last'.called[i].threw => last'.called[i].caught
            /\ state' = state
            /\ ~pendingNotification'[o]
     /\ last'.ev \in {"mutate", "mutationResolve"} =>
          /\ {last'.called[i].cb : i \in DOMAIN last'.called} = MutationSubscribed
          /\ \A i \in DOMAIN last'.called : last'.called[i].threw => last'.called[i].caught
          /\ last'.ev = "mutate" =>
               mutations'[Len(mutations')].phase = "pending"
          /\ last'.ev = "mutationResolve" =>
               \E m \in DOMAIN mutations :
                 /\ mutations[m].phase = "pending"
                 /\ mutations'[m].phase = "done"
                 /\ ~mutations'[m].threw
                 /\ mutations'[m].res = last'.res]_vars

\* The first of two subscribers of an entry threw and the second was
\* called all the same.
C24_Witness ==
  /\ last.ev = "notified"
  /\ Len(last.called) = 2
  /\ last.called[1].threw
  /\ ~last.called[2].threw

\* The first of two mutation subscribers threw when a mutation settled and
\* the second was called all the same.
C24_WitnessMutation ==
  /\ last.ev = "mutationResolve"
  /\ Len(last.called) = 2
  /\ last.called[1].threw
  /\ ~last.called[2].threw

\* The fetch() calls made by refetchWithoutStale that it still awaits.
IntervalCalls(o) == {s \in Slots : calls[o][s].caller = "interval"}

\* C25: a tick of the polling interval calls fetch() with staleTime forced
\* to 0 iff the entry has a subscriber and no refetch of the interval is in
\* progress: the operation is then invoked however fresh the entry is,
\* unless the entry is Loading already; any other tick changes nothing.
\* When the refetch ends, with success or failure, staleTime is put back
\* to the value it had at the tick and the flag is lowered; the flag is up
\* exactly while a refetch is in progress.
C25_AutoRefetch ==
  [][\A o \in Obj :
       /\ isRefetching[o] <=> IntervalCalls(o) # {}
       /\ Cardinality(IntervalCalls(o)) <= 1
       /\ (last'.ev = "tick" /\ o \in last'.objs) =>
            IF Len(subscribers[o]) > 0 /\ ~isRefetching[o]
            THEN /\ isRefetching'[o]
                 /\ options'[o].staleTime = 0
                 /\ o \in last'.started <=> state[o].status # "loading"
                 /\ \E s \in IntervalCalls(o)' :
                      calls'[o][s].originalStale = options[o].staleTime
            ELSE /\ last'.started = {}
                 /\ UNCHANGED <<state, calls, options, isRefetching, notifyVars, abortController>>
       /\ (last'.ev = "refetched" /\ o \in last'.objs) =>
            /\ ~isRefetching'[o]
            /\ IntervalCalls(o)' = {}
            /\ \E s \in IntervalCalls(o) :
                 /\ calls[o][s].phase \in {"resolved", "rejected"}
                 /\ options'[o].staleTime = calls[o][s].originalStale]_vars

\* A tick has invoked the operation of an entry that has a subscriber and
\* whose data was written at this very moment, fresh for ever under the
\* staleTime of Infinity it was configured with.
C25_Witness ==
  /\ last.ev = "tick"
  /\ \E o \in last.started :
       /\ state[o].status = "loading"
       /\ state[o].updatedAt = now
       /\ state[o].data = "d1"
       /\ Len(subscribers[o]) > 0
       /\ isRefetching[o]
       /\ options[o].staleTime = 0
       /\ \E s \in IntervalCalls(o) : calls[o][s].originalStale = Infinity

\* A refetch of the interval whose operation failed has ended: staleTime
\* is Infinity again and the flag is down.
C25_WitnessRestored ==
  /\ last.ev = "refetched"
  /\ \E o \in last.objs :
       /\ state[o].status = "error"
       /\ options[o].staleTime = Infinity
       /\ ~isRefetching[o]

\* What the claim takes an option to be after fetchQuery: the value of the
\* call if it has one, the client's default otherwise.
Effective(p) == [f \in OptionNames |-> IF f \in DOMAIN p THEN p[f] ELSE DefaultOptions[f]]

\* C26: after fetchQuery with options p, none of them passed as undefined,
\* every option of the entry has the value of the call where the call has
\* one and the client's default otherwise, whether the entry was created by
\* the call or was there with other values.
C26_OptionMerging ==
  [][(last'.ev = "fetchQuery" /\ last'.args[2] = {}) =>
       \A o \in last'.objs : options'[o] = Effective(last'.args[1])]_vars

\* An entry that was there with data gets fetchQuery with a retry option
\* only: its other options are the defaults and retry is the call's value.
C26_Witness ==
  /\ last.ev = "fetchQuery"
  /\ last.args[1] = Overrides({"retry"}) /\ last.args[2] = {}
  /\ \E o \in last.objs :
       /\ state[o].data = "d1"
       /\ options[o] = [DefaultOptions EXCEPT !.retry = 1]

\* C26 as stated, a property passed as undefined counting as not
\* supplied.
C26_AsStated ==
  [][last'.ev = "fetchQuery" =>
       \A o \in last'.objs : options'[o] = Effective(last'.args[1])]_vars

\* C27: two keys that are deep-equal, object segments with the same
\* properties in another order included, have the same serialization: the
\* entry stored under one is found with the other.
C27_CanonicalKeys ==
  (last.ev = "keyLookup" /\ StructurallyEqual(matchCall.queryKey, matchCall.keyPart)) =>
    matchCall.res

\* The segments of partial key P are a prefix of those of key K under
\* structural deep equality.
StructuralPrefix(P, K) ==
  /\ Len(P.kids) <= Len(K.kids)
  /\ \A i \in 1..Len(P.kids) : StructurallyEqual(P.kids[i].v, K.kids[i].v)

\* A getQueries or getQueryData call changes nothing: no operation is
\* invoked, no entry created, no timer set, nobody notified, the registry
\* and every entry's state and options are as before; getQueryData of a
\* key that is not registered returns undefined.
C28_Frame ==
  [][last'.ev \in {"getQueries", "getQueryData"} =>
       /\ UNCHANGED <<now, cache, created, fn, state, options, abortController, notifyVars, calls,
                      invalidating, subscriptionVars, mutationVars, refetchVars>>
       /\ last'.started = {}
       /\ (last'.ev = "getQueryData" /\ cache[last'.args[1]] = 0) =>
            last'.res = "undefined"]_vars

\* C28: getQueries and getQueryData change nothing, and getQueries returns
\* exactly the entries whose key the partial key matches, that is, is a
\* structural prefix of: every registered entry when it is omitted, and for
\* a key of any shape the filter accepts it exactly then.
C28_ReadOnlyQueries ==
  [][/\ last'.ev \in {"getQueries", "getQueryData"} =>
          UNCHANGED <<now, cache, created, fn, state, options, abortController, notifyVars, calls,
                      invalidating, subscriptionVars, mutationVars, refetchVars>>
     /\ last'.ev = "getQueries" =>
          LET kp == last'.args[1]
          IN last'.res =
               {[key |-> KeyOf(o), state |-> state[o]] :
                  o \in {q \in Obj :
                           /\ Registered(q)
                           /\ kp.given =>
                                StructuralPrefix(KeyValue(kp.key), KeyValue(KeyOf(q)))}}
     /\ last'.ev = "matchKey" =>
          matchCall'.res = StructuralPrefix(matchCall'.keyPart, matchCall'.queryKey)]_vars

\* C29: an entry whose status is Loading has an invocation of its
\* operation in flight whose completion will be written to the entry, that
\* is, one whose signal is not aborted.
C29_LoadingMeansInFlight ==
  \A o \in Obj :
    (Exists(o) /\ state[o].status = "loading") =>
      \E s \in Slots : InFlight(calls[o][s]) /\ ~Aborted(calls[o][s])

\* C30: an entry with status Success has no error and one with status
\* Error has no data, a failed refetch dropping the data that was there;
\* a step that makes an entry Loading changes nothing else of its state, so
\* the data or the error it had stays readable.
C30_StateWellFormed ==
  [][\A o \in Obj :
       /\ state'[o].status = "success" => state'[o].error = "undefined"
       /\ state'[o].status = "error" => state'[o].data = "undefined"
       /\ (state'[o].status = "loading" /\ state[o].status # "loading") =>
            state'[o] = [state[o] EXCEPT !.status = "loading"]]_vars

\* fetchQuery has just made an entry Loading whose last call had succeeded:
\* the data of that success is still readable.
C30_Witness ==
  /\ last.ev = "fetchQuery"
  /\ \E o \in last.started :
       /\ state[o].status = "loading"
       /\ state[o].data = "d1"
       /\ state[o].updatedAt > 0

\* The calls of entry o whose operation is pending and whose signal is not
\* aborted: the live cancellation tokens.
LiveTokens(o) == {s \in Slots : InFlight(calls[o][s]) /\ ~Aborted(calls[o][s])}

\* The token part of C31 on its own: an entry has at most one live token,
\* and it is the one its abortController field holds.
C31_SingleToken ==
  \A o \in Obj :
    /\ Cardinality(LiveTokens(o)) <= 1
    /\ \A s \in LiveTokens(o) : abortController[o] = s

\* C31: an entry has at most one live cancellation token and at most one
\* eviction timeout pending, and the pending timeout is the one whose
\* handle cacheTimer holds, so that a subscribe can clear it.  (The model
\* keeps one polling interval per entry by construction.)
C31_SingleTokenAndTimers ==
  \A o \in Obj :
    /\ Cardinality(LiveTokens(o)) <= 1
    /\ Cardinality(timeouts[o]) <= 1
    /\ \A tm \in timeouts[o] : tm.id = cacheTimer[o]

\* C32: an invalidateQueries call that matches an entry whose refetch
\* from an earlier invalidateQueries call is still pending invokes the
\* operation anew, and the signal of the earlier call is aborted as
\* superseded.
C32_InvalidateSupersedes ==
  [][\A o \in Obj : \A s \in Slots :
       (/\ last'.ev = "invalidate"
        /\ o \in last'.objs
        /\ calls[o][s].caller = "invalidate"
        /\ InFlight(calls[o][s])
        /\ ~Aborted(calls[o][s]))
       => /\ o \in last'.started
          /\ calls'[o][s].aborted = "superseded"]_vars

\* C33: a fetch() call whose operation has settled, made on an entry with
\* suspense enabled, is rejected with the entry's error when the entry is
\* then in Error and with the still-loading error when it is then Loading;
\* with suspense disabled the call is never rejected.
C33_SuspenseSignalling ==
  [][\A o \in Obj : \A s \in Slots :
       Completes(o, s) =>
         /\ (options[o].suspense /\ state'[o].status = "error") =>
              (calls'[o][s].phase = "rejected" /\ calls'[o][s].thrown = state'[o].error)
         /\ (options[o].suspense /\ state'[o].status = "loading") =>
              (calls'[o][s].phase = "rejected" /\ calls'[o][s].thrown = "still loading")
         /\ ~options[o].suspense => calls'[o][s].phase # "rejected"]_vars

\* C34: the data a fetchQuery call returns is the data of the entry
\* registered under the key when it returns, and the entry whose staleTime
\* a task of invalidateQueries restores and which it notifies is the one
\* registered under the key at that moment.
C34_NoStaleReference ==
  [][\A o \in Obj : \A s \in Slots :
       /\ (Returns(o, s) /\ last'.ev = "fetchQueryReturned") =>
            /\ cache[KeyOf(o)] # 0
            /\ last'.res = state[<<KeyOf(o), cache[KeyOf(o)]>>].data
       /\ (last'.ev = "invalidateFinally" /\ o \in last'.objs) => Registered(o)]_vars

\* The mutation subscribers are each called once, in order, and each
\* reads the count the client has after the step.
ObserversSeeCount ==
  /\ [i \in DOMAIN last'.called |-> last'.called[i].cb] = mutationSubscribers
  /\ \A i \in DOMAIN last'.called : last'.called[i].saw = Cardinality(activeMutations')

\* C35: a mutate call registers its ticket, calls every mutation-count
\* observer once, the count they read including the ticket, and invokes
\* the operation with no callback run yet; when the operation has settled
\* the supplied onSuccess or onError runs, the ticket is unregistered and
\* every observer is called once more, the count they read excluding the
\* ticket.  No other step calls the observers.
C35_MutationObserverOrdering ==
  [][/\ last'.ev = "mutate" =>
          LET m == Len(mutations')
          IN /\ Len(mutations') = Len(mutations) + 1
             /\ m \in activeMutations' /\ m \notin activeMutations
             /\ mutations'[m].phase = "pending"
             /\ mutations'[m].onSuccess = <<>> /\ mutations'[m].onError = <<>>
             /\ ObserversSeeCount
     /\ last'.ev \in {"mutationResolve", "mutationReject"} =>
          \E m \in DOMAIN mutations :
             /\ mutations[m].phase = "pending" /\ mutations'[m].phase = "done"
             /\ m \notin activeMutations'
             /\ (mutations'[m].ok /\ mutations'[m].options.onSuccess # "absent") =>
                  mutations'[m].onSuccess = <<mutations'[m].op>>
             /\ (~mutations'[m].ok /\ mutations'[m].options.onError # "absent") =>
                  mutations'[m].onError = <<mutations'[m].op>>
             /\ ObserversSeeCount
     /\ last'.ev \notin {"mutate", "mutationResolve", "mutationReject"} =>
          last'.called = <<>>]_vars

\* A mutate call has just completed while another was pending, with two
\* observers subscribed: both were called and read a count of one.
C35_Witness ==
  /\ last.ev = "mutationResolve"
  /\ Len(last.called) = 2
  /\ last.called[1].saw = 1 /\ last.called[2].saw = 1
  /\ \E m \in DOMAIN mutations :
       mutations[m].phase = "done" /\ mutations[m].onSuccess = <<"d1">>

\* A second mutate call has just started: the observer read a count of two.
C35_WitnessStart ==
  /\ last.ev = "mutate"
  /\ Len(last.called) >= 1
  /\ last.called[1].saw = 2

\* C36: setQueryData on an entry whose call is pending makes the entry
\* Success with the value written and leaves the call, its signal and the
\* controller as they are; a call that completes with its signal not
\* aborted writes its outcome whatever the entry holds then, a value
\* written by setQueryData included.
C36_SetQueryDataDoesNotCancel ==
  [][\A o \in Obj :
       /\ (last'.ev = "setQueryData" /\ o \in last'.objs) =>
            /\ state'[o].status = "success"
            /\ state'[o].data = newData(last'.res, state[o].data)
            /\ calls'[o] = calls[o]
            /\ abortController'[o] = abortController[o]
       /\ \A s \in Slots :
            (Completes(o, s) /\ ~Aborted(calls[o][s])) =>
              /\ state'[o].updatedAt = now
              /\ last'.ev = "resolve" =>
                   (state'[o].status = "success" /\ state'[o].data = last'.res
                    /\ state'[o].error = "undefined")
              /\ last'.ev = "reject" =>
                   (state'[o].status = "error" /\ state'[o].error = last'.res
                    /\ state'[o].data = "undefined")]_vars

\* setQueryData has just written d2 into an entry whose call is pending
\* with a signal that is not aborted: the entry is Success.
C36_Witness ==
  /\ last.ev = "setQueryData"
  /\ \E o \in last.objs : \E s \in Slots :
       /\ InFlight(calls[o][s]) /\ ~Aborted(calls[o][s])
       /\ abortController[o] = s
       /\ state[o].status = "success" /\ state[o].data = "d2"

\* C37: the operation of an entry that exists never changes; a new entry
\* has the queryFn of the fetchQuery call that constructed it, or the
\* placeholder of the setQueryData call that did; an invocation on an
\* entry constructed by setQueryData resolves to the value of the data
\* argument of that call and never rejects, whatever queryFn later
\* fetchQuery calls brought.
C37_OperationFixedAtCreation ==
  [][\A o \in Obj :
       /\ Exists(o) => fn'[o] = fn[o]
       /\ (~Exists(o) /\ o[2] <= created'[KeyOf(o)]) =>
            /\ last'.ev \in {"fetchQuery", "setQueryData"}
            /\ last'.ev = "fetchQuery" => fn'[o] = last'.args[3]
            /\ last'.ev = "setQueryData" => fn'[o] = Placeholder(last'.res)
       /\ (last'.ev = "resolve" /\ o \in last'.objs /\ ~fn[o].given) =>
            last'.res = newData(fn[o].name, "undefined")
       /\ (last'.ev = "reject" /\ o \in last'.objs) => fn[o].given]_vars

\* An entry constructed by setQueryData(d2) was fetched by a fetchQuery
\* call with a queryFn of its own: the invocation has resolved to d2.
C37_Witness ==
  /\ last.ev = "resolve"
  /\ last.res = "d2"
  /\ \E o \in last.objs : \E s \in Slots :
       /\ fn[o] = Placeholder("d2")
       /\ calls[o][s].caller = "fetchQuery"
       /\ calls[o][s].phase = "resolved"
       /\ state[o].data = "d2"

\* C38: every client that exists holds the QueryCache that
\* QueryCache.getInstance() returns, so what any client reads for a key is
\* the data of the entry registered there, a clear() through any client
\* empties that registry, and the eviction timeout of a Query removes its
\* key from that registry and leaves every other QueryCache the Query was
\* stored in as it is.
C38_SharedRegistry ==
  [][/\ \A c \in Clients : clientCache'[c] # "none" => clientCache'[c] = getInstance
     /\ last'.ev = "getQueryData" => last'.res = getQueryData(last'.args[1])
     /\ last'.ev = "clear" => (cache' = [k \in Keys |-> 0] /\ otherCache' = otherCache)
     /\ last'.ev = "evict" =>
          /\ \A o \in last'.objs : cache'[KeyOf(o)] = 0
          /\ otherCache' = otherCache]_vars

\* The client made with new QueryClient(config) has just read the data
\* that a fetchQuery call on the exported queryClient had fetched.
C38_Witness ==
  /\ last.ev = "getQueryData"
  /\ last.args[2] = "custom"
  /\ last.res = "d1"

\* The eviction timeout of a Query that is also stored in the caller's own
\* QueryCache has just run: the key is gone from the shared registry and
\* still in the other one.
C38_WitnessEviction ==
  /\ last.ev = "evict"
  /\ cache[TheKey] = 0
  /\ otherCache[TheKey] # 0

\* C39: a registered entry that has no subscriber and never had its
\* subscriber set emptied by unsubscribe (its cacheTimer was never set)
\* leaves the registry through clear() only.
C39_NeverSubscribedNeverEvicted ==
  [][\A o \in Obj :
       (/\ Registered(o)
        /\ subscribers[o] = <<>>
        /\ cacheTimer[o] = 0
        /\ cache'[KeyOf(o)] # o[2])
       => last'.ev = "clear"]_vars

\* A batch of entry o has just been delivered: every subscriber the entry
\* has was called once and read the state the entry holds.
Delivered(o) ==
  /\ last.ev = "notified"
  /\ o \in last.objs
  /\ [i \in DOMAIN last.called |-> last.called[i].cb] = subscribers[o]
  /\ \A i \in DOMAIN last.called : last.called[i].saw = state[o]

\* C40: every step that changes the state of an entry leaves a
\* notification pending with its timer set, and a pending notification is
\* eventually delivered to every subscriber the entry has then, each
\* reading the state the entry holds at that moment; after the last change
\* of state that is the final state.
C40_NoLostNotification ==
  /\ [][\A o \in Obj :
          state'[o] # state[o] => (pendingNotification'[o] /\ notificationTimer'[o] > 0)]_vars
  /\ \A o \in TheEntries : [](pendingNotification[o] => <>Delivered(o))

\* A batch has just been delivered to two subscribers of an entry in
\* Error after a failed fetch.
C40_Witness ==
  /\ last.ev = "notified"
  /\ \E o \in last.objs :
       /\ Delivered(o)
       /\ Len(last.called) = 2
       /\ state[o].status = "error"
       /\ ~pendingNotification[o]

====
